---- MODULE Spec2Model ----
(***************************************************************************)
(* Model of OpenPecha/translation-workflow.                                *)
(*                                                                         *)
(* The state machines of this module:                                      *)
(*   SpecGraph : the translation stage graph of workflow.py run on one     *)
(*               Work Item (fan-out, aggregator, translation_generator,    *)
(*               llm_call_evaluator, route_translation, generate_glossary).*)
(*   SpecBatch : the batch coordinators (run_robust_batch_processing of    *)
(*               examples/batch_process.py and run of cli.py) driving      *)
(*               several Work Items through the compiled workflow.         *)
(*   SpecFormat : the structural loop (format_evaluator_feedback,          *)
(*               route_structured, formater) as workflow.py wires it in    *)
(*               its commented-out edges.                                  *)
(*   SpecContent : ContentGenerator.generate_all_content over a list of    *)
(*               target languages.                                         *)
(*   SpecZeroShot : batch_translate_documents of                           *)
(*               examples/zero_shot_translator.py.                         *)
(*   SpecUcca  : the UCCA refinement graph of ucca_generator/ucca_agent.py *)
(*               (ucca_generator, ucca_evaluator, route_ucca).             *)
(*   SpecGen   : run_ucca_generation_pipeline and generate_ucca_graph_step *)
(*               of ucca_generator/.                                       *)
(*   SpecPipe  : TranslationPipeline.process_request of                    *)
(*               tibetan_translator_v2/processors/pipeline.py.             *)
(*   SpecPost  : the batched cascades of                                   *)
(*               tibetan_translator/processors/post_translation.py.        *)
(* Each specification leaves the other machines' variables untouched.      *)
(***************************************************************************)
EXTENDS Integers, Sequences, FiniteSets, TLC

\* ------------------------------------------------------------------ constants
MAX_TRANSLATION_ITERATIONS == 3

MAX_FORMAT_ITERATIONS == 1

\* ------------------------------------------------------------------ bounds
\* Largest number of input records given to a coordinator.
MaxItems == 3

\* Largest batch_size given to a coordinator (batch_size >= 1).
MaxBatchSize == 3

\* Largest max_retries given to run_robust_batch_processing (0 is accepted).
MaxRetries == 2

\* Most times convert_state_to_jsonl raises during one run.
MaxSinkFaults == 1

\* Cap on the runs of translation_generator explored for one Work Item
\* (the graph itself never needs more than MAX_TRANSLATION_ITERATIONS + 1).
MaxPasses == 5

VARIABLES
    \* ---- one Work Item in the stage graph
    state,          \* the State dictionary threaded through the graph
    node,           \* the graph position: which node (or edge function) runs next
    done,           \* fan-out nodes of the first superstep that have returned
    decision,       \* the last value returned by route_translation ("none" before)
    gen_runs,       \* times translation_generator has returned
    eval_runs,      \* times llm_call_evaluator has returned
    okay_run,       \* length of the latest run of consecutive verdicts with grade "okay"
    llm_calls,      \* generation calls issued by the node that ran last
    enrichment,     \* how the glossary stage went ("none" before it has run)
    \* ---- a coordinator run
    mode,           \* "robust" (batch_process.py) or "cli" (cli.py run)
    n_items,        \* len(examples)
    batch_size,
    max_retries,
    pc,             \* position of the coordinator in its loops
    batch_idx,      \* index of the current batch, 0-based as in the source
    batch_success,
    batch_retries,
    item_idx,       \* index inside the current batch, 0-based
    item_success,
    item_retries,
    all_results,    \* in-memory list of successes (ids of the items)
    all_failures,   \* in-memory list of permanent failures
    success_log,    \* lines of <run_name>.jsonl
    fail_log,       \* lines of <run_name>_fail.jsonl
    batch_attempts, \* outcomes of the batched workflow invocations, per batch (history)
    item_attempts,  \* outcomes of the individual workflow invocations, per item (history)
    degraded,       \* batches that fell back to individual processing (history)
    sink_faults,    \* times convert_state_to_jsonl has raised (history)
    batch_sleeps,   \* time.sleep(retry_delay) calls of the batch loop, per batch (history)
    item_sleeps,    \* time.sleep(retry_delay) calls of the item loop, per item (history)
    \* ---- history of the stage graph and of the structural loop
    accepted_by,    \* branch of route_translation that returned "Accepted" ("none" before)
    failed_tries,   \* times the generation call that made a node raise was issued (0: none)
    formater_runs,  \* times formater has returned
    format_rejections, \* times format_evaluator_feedback found the format not matched
    \* ---- a call of ContentGenerator.generate_all_content
    target_languages, \* the argument
    content_pc,     \* "idle", "loop" or "returned"
    lang_idx,       \* languages of target_languages already processed
    content_results, \* the dictionary `results` being built: translations and glossaries by language
    content_log,    \* per processed language, how its two generation calls went (history)
    \* ---- a run of batch_translate_documents (examples/zero_shot_translator.py)
    zs_n,           \* len(documents)
    zs_batch_size,
    skip_commentary,
    zs_pc,          \* "idle", "loop" or "returned"
    zs_batch_idx,   \* batches already processed
    processed_documents, \* the list returned: one dictionary per document
    zs_calls,       \* per document, how its last translation call went (history)
    zs_source,      \* per document, whether doc["source"] has content ("text") or not ("empty")
    zs_batch_log,   \* per processed batch, the run of generate_translations_batch (history)
    \* ---- a run of the UCCA refinement graph (ucca_generator/ucca_agent.py)
    ucca_state,     \* the State dictionary of the run
    ucca_node,      \* "idle", the node (or edge function) that runs next, "END" or "raised"
    ucca_calls,     \* generation calls issued so far in the run (history)
    \* ---- a run of the single-step UCCA generation (ucca_generator/ucca_generator.py)
    gen_entry,      \* who calls generate_ucca_graph_step: the pipeline or the module's own test
    gen_service,    \* what the generation service does when it is invoked
    gen_state,      \* the State dictionary handed to generate_ucca_graph_step
    gen_pc,         \* position of the run
    \* ---- a call of TranslationPipeline.process_request (processors/pipeline.py)
    pipe_fault,     \* which statement of the try block raises, if any
    pipe_pc,        \* position inside process_request
    current_step,   \* WorkflowState.current_step
    errors,         \* WorkflowState.errors
    result,         \* ProcessingResult: translations and glossaries
    \* ---- a run of one post-translation cascade (tibetan_translator/processors/post_translation.py)
    cascade,        \* the function that runs
    post_n,         \* len(examples) or len(corpus)
    has_term,       \* per document, whether its source contains a standardized term
    post_pc,        \* "idle", "loop" or "returned"
    post_batch_idx, \* batches already processed
    post_store,     \* standardized_words / standardized_translations / word_by_word_translations
    post_calls,     \* per processed batch, the calls issued for it in order (history)
    updated_corpus  \* the corpus returned (<<>> before the return)

graph_vars == <<state, node, done, decision, gen_runs, eval_runs, okay_run, llm_calls,
                enrichment, accepted_by, failed_tries>>

batch_vars == <<mode, n_items, batch_size, max_retries, pc, batch_idx, batch_success,
                batch_retries, item_idx, item_success, item_retries, all_results,
                all_failures, success_log, fail_log, batch_attempts, item_attempts,
                degraded, sink_faults, batch_sleeps, item_sleeps>>

delay_vars == <<batch_sleeps, item_sleeps>>

format_vars == <<formater_runs, format_rejections>>

content_vars == <<target_languages, content_pc, lang_idx, content_results, content_log>>

zs_vars == <<zs_n, zs_batch_size, skip_commentary, zs_pc, zs_batch_idx,
             processed_documents, zs_calls, zs_source, zs_batch_log>>

ucca_vars == <<ucca_state, ucca_node, ucca_calls>>

gen_vars == <<gen_entry, gen_service, gen_state, gen_pc>>

pipe_vars == <<pipe_fault, pipe_pc, current_step, errors, result>>

post_vars == <<cascade, post_n, has_term, post_pc, post_batch_idx, post_store,
               post_calls, updated_corpus>>

more_vars == <<ucca_vars, gen_vars, pipe_vars, post_vars>>

\* (what an action of one of these machines leaves unchanged besides its own variables)
ucca_rest == <<gen_vars, pipe_vars, post_vars>>

gen_rest == <<ucca_vars, pipe_vars, post_vars>>

pipe_rest == <<ucca_vars, gen_vars, post_vars>>

post_rest == <<ucca_vars, gen_vars, pipe_vars>>

other_vars == <<format_vars, content_vars, zs_vars, more_vars>>

vars == <<graph_vars, batch_vars, other_vars>>

\* (idle values of a machine while another machine's specification runs)
FormatIdle == formater_runs = 0 /\ format_rejections = 0

ContentIdle ==
    /\ target_languages = <<>> /\ content_pc = "idle" /\ lang_idx = 0
    /\ content_results = [translations |-> <<>>, glossaries |-> <<>>]
    /\ content_log = <<>>

ZsIdle ==
    /\ zs_n = 0 /\ zs_batch_size = 1 /\ skip_commentary = FALSE
    /\ zs_pc = "idle" /\ zs_batch_idx = 0
    /\ processed_documents = <<>> /\ zs_calls = <<>>
    /\ zs_source = <<>> /\ zs_batch_log = <<>>

UccaIdle ==
    /\ ucca_node = "idle" /\ ucca_calls = 0
    /\ ucca_state = [feedback_history |-> <<>>, itteration |-> 0, source_ucca |-> <<>>,
                     latest_structured_suggestions |-> <<>>, grade |-> "unset"]

GenIdle ==
    /\ gen_entry = "none" /\ gen_pc = "idle"
    /\ gen_service = [raises |-> FALSE, open |-> "", payload |-> "graph", close |-> ""]
    /\ gen_state = [ucca_graph_json_str |-> "None", ucca_graph |-> "None",
                    error_message |-> "None", processing_log |-> "absent"]

PipeIdle ==
    /\ pipe_fault = "none" /\ pipe_pc = "idle" /\ current_step = "initialized"
    /\ errors = <<>>
    /\ result = [translations |-> <<>>, glossaries |-> <<>>]

PostIdle ==
    /\ cascade = "none" /\ post_n = 0 /\ has_term = <<>> /\ post_pc = "idle"
    /\ post_batch_idx = 0 /\ post_store = <<>> /\ post_calls = <<>>
    /\ updated_corpus = <<>>

MoreIdle == UccaIdle /\ GenIdle /\ PipeIdle /\ PostIdle

\* ================================================================== stage graph
Grades == {"bad", "okay", "good", "great"}

FanOut == {"commentary_translator_1", "commentary_translator_2", "commentary_translator_3"}

\* A commentary handed in by the caller: the empty string or some text.
CommentaryInputs == {"", "text"}

\* The dictionary built for one record by the coordinators; the keys the
\* stages add later are carried as "unset" (absent from the dictionary).
InitialState(c1, c2, c3) ==
    [ source |-> "source", language |-> "English",
      commentary1 |-> c1, commentary2 |-> c2, commentary3 |-> c3,
      commentary1_translation |-> "unset",
      commentary2_translation |-> "unset",
      commentary3_translation |-> "unset",
      combined_commentary |-> "unset", commentary_source |-> "unset",
      translation |-> <<>>, plaintext_translation |-> "unset",
      feedback_history |-> <<>>, format_feedback_history |-> <<>>,
      itteration |-> 0, iteration |-> 0, format_iteration |-> 0,
      grade |-> "unset", formated |-> FALSE,
      is_target_language |-> "unset",
      glossary |-> <<>> ]

\* Target languages handed in by the caller (Chinese has a recovery path
\* of its own in extract_glossary).
Languages == {"English", "Chinese"}

\* A Work Item of any of the target languages handed to the graph.
GraphInitAny ==
    /\ \E c1 \in CommentaryInputs, c2 \in CommentaryInputs, c3 \in CommentaryInputs,
          lang \in Languages :
          state = [InitialState(c1, c2, c3) EXCEPT !.language = lang]
    /\ node = "START"
    /\ enrichment = "none"
    /\ done = {}
    /\ decision = "none"
    /\ gen_runs = 0
    /\ eval_runs = 0
    /\ okay_run = 0
    /\ llm_calls = 0
    /\ accepted_by = "none"
    /\ failed_tries = 0

GraphInit ==
    /\ \E c1 \in CommentaryInputs, c2 \in CommentaryInputs, c3 \in CommentaryInputs :
          state = InitialState(c1, c2, c3)
    /\ node = "START"
    /\ enrichment = "none"
    /\ done = {}
    /\ decision = "none"
    /\ gen_runs = 0
    /\ eval_runs = 0
    /\ okay_run = 0
    /\ llm_calls = 0
    /\ accepted_by = "none"
    /\ failed_tries = 0

\* The value a commentary_translator_k node returns for its commentary: None
\* for an empty commentary, the commentary itself otherwise.
CommentaryTranslation(c) == IF c = "" THEN "None" ELSE c

commentary_translator_1 ==
    /\ node = "START"
    /\ "commentary_translator_1" \notin done
    /\ state' = [state EXCEPT
                    !.commentary1 = CommentaryTranslation(state.commentary1),
                    !.commentary1_translation = CommentaryTranslation(state.commentary1)]
    /\ done' = done \cup {"commentary_translator_1"}
    /\ llm_calls' = 0
    /\ UNCHANGED <<node, decision, gen_runs, eval_runs, okay_run, enrichment, accepted_by,
                   failed_tries, batch_vars, other_vars>>

commentary_translator_2 ==
    /\ node = "START"
    /\ "commentary_translator_2" \notin done
    /\ state' = [state EXCEPT
                    !.commentary2 = CommentaryTranslation(state.commentary2),
                    !.commentary2_translation = CommentaryTranslation(state.commentary2)]
    /\ done' = done \cup {"commentary_translator_2"}
    /\ llm_calls' = 0
    /\ UNCHANGED <<node, decision, gen_runs, eval_runs, okay_run, enrichment, accepted_by,
                   failed_tries, batch_vars, other_vars>>

commentary_translator_3 ==
    /\ node = "START"
    /\ "commentary_translator_3" \notin done
    /\ state' = [state EXCEPT
                    !.commentary3 = CommentaryTranslation(state.commentary3),
                    !.commentary3_translation = CommentaryTranslation(state.commentary3)]
    /\ done' = done \cup {"commentary_translator_3"}
    /\ llm_calls' = 0
    /\ UNCHANGED <<node, decision, gen_runs, eval_runs, okay_run, enrichment, accepted_by,
                   failed_tries, batch_vars, other_vars>>

\* The aggregator scheduled as soon as one fan-out node has returned.
FanIn_early ==
    /\ node = "START"
    /\ done # {}
    /\ node' = "aggregator"
    /\ UNCHANGED <<state, done, decision, gen_runs, eval_runs, okay_run, llm_calls,
                   enrichment, accepted_by, failed_tries, batch_vars, other_vars>>

\* The edges commentary_translator_k -> aggregator: the aggregator is
\* scheduled once all three fan-out nodes of the superstep have returned.
FanIn ==
    /\ node = "START"
    /\ done = FanOut
    /\ node' = "aggregator"
    /\ UNCHANGED <<state, done, decision, gen_runs, eval_runs, okay_run, llm_calls,
                   enrichment, accepted_by,
                   failed_tries, batch_vars, other_vars>>

has_commentary(t) == t \notin {"None", "", "unset"}

commentary_count(s) ==
    (IF has_commentary(s.commentary1_translation) THEN 1 ELSE 0)
  + (IF has_commentary(s.commentary2_translation) THEN 1 ELSE 0)
  + (IF has_commentary(s.commentary3_translation) THEN 1 ELSE 0)

\* aggregator: source analysis for no commentary, pass-through for one,
\* one combination call for several. A generation call may raise.
aggregator ==
    /\ node = "aggregator"
    /\ LET n == commentary_count(state) IN
       IF n = 1
       THEN /\ state' = [state EXCEPT
                           !.combined_commentary =
                               IF has_commentary(state.commentary1_translation)
                               THEN "commentary1"
                               ELSE IF has_commentary(state.commentary2_translation)
                                    THEN "commentary2" ELSE "commentary3",
                           !.commentary_source = "traditional"]
            /\ llm_calls' = 0
            /\ node' = "translation_generator"
            /\ failed_tries' = failed_tries
       ELSE \E ok \in BOOLEAN :
            /\ llm_calls' = 1
            /\ IF ok
               THEN /\ state' = [state EXCEPT
                                   !.combined_commentary =
                                       IF n = 0 THEN "source_analysis" ELSE "combined",
                                   !.commentary_source =
                                       IF n = 0 THEN "source_analysis" ELSE "traditional"]
                    /\ node' = "translation_generator"
                    /\ failed_tries' = failed_tries
               ELSE /\ state' = state
                    /\ node' = "raised"
                    /\ failed_tries' = 1
    /\ UNCHANGED <<done, decision, gen_runs, eval_runs, okay_run, enrichment, accepted_by,
                   batch_vars, other_vars>>

\* aggregator of tibetan_translator_v2/processors/commentary.py, the module
\* the import of workflow.py resolves to in the v2 package: one combination
\* call over the UCCA, word-by-word and summary inputs, whatever the
\* commentary translations are. The call may raise.
aggregator_v2 ==
    /\ node = "aggregator"
    /\ llm_calls' = 1
    /\ \E ok \in BOOLEAN :
          IF ok
          THEN /\ state' = [state EXCEPT !.combined_commentary = "combined"]
               /\ node' = "translation_generator"
               /\ failed_tries' = failed_tries
          ELSE /\ state' = state
               /\ node' = "raised"
               /\ failed_tries' = 1
    /\ UNCHANGED <<done, decision, gen_runs, eval_runs, okay_run, enrichment, accepted_by,
                   batch_vars, other_vars>>

\* A retry pass counting two iterations.
NextItteration_two(s) == s.itteration + 2

\* state.get("itteration", 0) + 1, the counter value written by a retry pass.
NextItteration(s) == s.itteration + 1

\* The artifact produced by the k-th run of translation_generator.
Artifact(k) == [gen |-> k]

\* The improvement pass regenerating the combined commentary as well.
ImprovementUpdate_recombine(s, k) ==
    [s EXCEPT !.translation = Append(s.translation, Artifact(k)),
              !.itteration = s.itteration + 1,
              !.combined_commentary = "regenerated"]

\* The improvement pass returning only its new artifact.
ImprovementUpdate_replace(s, k) ==
    [s EXCEPT !.translation = <<Artifact(k)>>,
              !.itteration = s.itteration + 1]

\* translation_generator on a state with feedback: the improvement pass.
\* It appends one artifact built from the latest feedback and the latest
\* artifact, and increments itteration.
ImprovementUpdate(s, k) ==
    [s EXCEPT !.translation = Append(s.translation, Artifact(k)),
              !.itteration = NextItteration(s)]

\* translation_generator on a state without feedback: the initial pass.
\* It writes a one-element translation list, the plain variant, a first
\* feedback entry and the key "iteration" (not "itteration").
InitialUpdate(s, k) ==
    [s EXCEPT !.translation = <<Artifact(k)>>,
              !.plaintext_translation = "plain",
              !.feedback_history =
                  <<[kind |-> "initial", iter |-> s.itteration, about |-> 1]>>,
              !.iteration = 1]

GeneratorCalls(s) == IF s.feedback_history # <<>> THEN 2 ELSE 4

translation_generator ==
    /\ node = "translation_generator"
    /\ gen_runs < MaxPasses
    /\ \/ /\ state' = IF state.feedback_history # <<>>
                      THEN ImprovementUpdate(state, gen_runs + 1)
                      ELSE InitialUpdate(state, gen_runs + 1)
          /\ gen_runs' = gen_runs + 1
          /\ llm_calls' = GeneratorCalls(state)
          /\ node' = "llm_call_evaluator"
          /\ failed_tries' = failed_tries
       \/ \E k \in 1..GeneratorCalls(state) :      \* the k-th generation call raises
          /\ llm_calls' = k
          /\ node' = "raised"
          /\ failed_tries' = 1
          /\ UNCHANGED <<state, gen_runs>>
    /\ UNCHANGED <<done, decision, eval_runs, okay_run, enrichment, accepted_by,
                   batch_vars, other_vars>>

\* What the grading call returns (the Feedback record of models.py).
Verdicts ==
    [grade : Grades, format_matched : BOOLEAN, is_target_language : BOOLEAN,
     format_issues : {"", "issues"}]

\* The language short-circuit without its forced grade.
LanguageErrorUpdate_keep(s) ==
    [s EXCEPT !.is_target_language = FALSE,
              !.feedback_history =
                  Append(s.feedback_history,
                         [kind |-> "language", iter |-> s.itteration,
                          about |-> Len(s.translation)])]

\* llm_call_evaluator when the language check says "not the target language".
LanguageErrorUpdate(s) ==
    [s EXCEPT !.is_target_language = FALSE,
              !.grade = "bad",
              !.formated = FALSE,
              !.feedback_history =
                  Append(s.feedback_history,
                         [kind |-> "language", iter |-> s.itteration,
                          about |-> Len(s.translation)])]

\* llm_call_evaluator after a full evaluation returning verdict v.
EvaluationUpdate(s, v) ==
    [s EXCEPT !.is_target_language = v.is_target_language,
              !.grade = v.grade,
              !.formated = v.format_matched,
              !.feedback_history =
                  Append(s.feedback_history,
                         [kind |-> "grade", iter |-> s.itteration,
                          about |-> Len(s.translation)]),
              !.format_feedback_history =
                  IF v.format_issues # ""
                  THEN Append(s.format_feedback_history, s.itteration)
                  ELSE s.format_feedback_history]

\* Outcomes of verify_against_commentary with its except-and-call-again.
VerifyOutcomes == {"ok", "ok_on_retry", "raised_twice"}

VerifyCalls(o) == IF o = "ok" THEN 1 ELSE 2

llm_call_evaluator ==
    /\ node = "llm_call_evaluator"
    /\ \/ /\ llm_calls' = 1                      \* check_translation_language raises
          /\ node' = "raised"
          /\ failed_tries' = 1
          /\ UNCHANGED <<state, eval_runs, okay_run>>
       \/ /\ state' = LanguageErrorUpdate(state)  \* not in the target language
          /\ llm_calls' = 1
          /\ eval_runs' = eval_runs + 1
          /\ okay_run' = 0
          /\ node' = "route_translation"
          /\ failed_tries' = failed_tries
       \/ \E o \in VerifyOutcomes :
          \/ /\ o = "raised_twice"
             /\ llm_calls' = 1 + VerifyCalls(o)
             /\ node' = "raised"
             /\ failed_tries' = VerifyCalls(o)
             /\ UNCHANGED <<state, eval_runs, okay_run>>
          \/ /\ o # "raised_twice"                \* the grading call raises
             /\ llm_calls' = 2 + VerifyCalls(o)
             /\ node' = "raised"
             /\ failed_tries' = 1
             /\ UNCHANGED <<state, eval_runs, okay_run>>
          \/ /\ o # "raised_twice"
             /\ \E v \in Verdicts :
                /\ state' = EvaluationUpdate(state, v)
                /\ okay_run' = IF v.grade = "okay" THEN okay_run + 1 ELSE 0
             /\ llm_calls' = 2 + VerifyCalls(o)
             /\ eval_runs' = eval_runs + 1
             /\ node' = "route_translation"
             /\ failed_tries' = failed_tries
    /\ UNCHANGED <<done, decision, gen_runs, enrichment, accepted_by,
                   batch_vars, other_vars>>

\* route_translation with the ceiling tested by > instead of >=.
route_translation_late(s) ==
    IF s.grade = "great" /\ s.formated
    THEN "Accepted"
    ELSE IF s.itteration > MAX_TRANSLATION_ITERATIONS
         THEN "Accepted"
         ELSE "Rejected + Feedback"

\* route_translation accepting on grade alone.
route_translation_grade_only(s) ==
    IF s.grade = "great"
    THEN "Accepted"
    ELSE IF s.itteration >= MAX_TRANSLATION_ITERATIONS
         THEN "Accepted"
         ELSE "Rejected + Feedback"

\* route_translation: the function of the conditional edge.
route_translation(s) ==
    IF s.grade = "great" /\ s.formated
    THEN "Accepted"
    ELSE IF s.itteration >= MAX_TRANSLATION_ITERATIONS
         THEN "Accepted"
         ELSE "Rejected + Feedback"

\* add_conditional_edges with the two targets exchanged.
EdgeTarget_swapped(r) ==
    IF r = "Accepted" THEN "translation_generator" ELSE "generate_glossary"

\* add_conditional_edges with "Accepted" mapped to END: the glossary is skipped.
EdgeTarget_no_glossary(r) ==
    IF r = "Accepted" THEN "END" ELSE "translation_generator"

\* add_conditional_edges: the node each returned value leads to.
EdgeTarget(r) ==
    IF r = "Accepted" THEN "generate_glossary" ELSE "translation_generator"

\* The branch of route_translation that returns its value on state s.
AcceptBranch(s) ==
    IF s.grade = "great" /\ s.formated
    THEN "grade"
    ELSE IF s.itteration >= MAX_TRANSLATION_ITERATIONS
         THEN "ceiling"
         ELSE "none"

RouteTranslation ==
    /\ node = "route_translation"
    /\ decision' = route_translation(state)
    /\ accepted_by' = AcceptBranch(state)
    /\ node' = EdgeTarget(route_translation(state))
    /\ llm_calls' = 0
    /\ UNCHANGED <<state, done, gen_runs, eval_runs, okay_run, enrichment,
                   failed_tries, batch_vars, other_vars>>

\* How extract_glossary and generate_glossary_csv can go: entries extracted,
\* a result without entries, the structured call raising (with, for Chinese,
\* the raw-response recovery finding entries), the CSV writing raising out
\* of its fallback, the prompt building raising before any call.
GlossaryOutcomes ==
    {"entries", "no_entries_attribute", "invoke_raised", "recovered",
     "csv_raised", "outer_raised"}

GlossaryFailures ==
    {"no_entries_attribute", "invoke_raised", "csv_raised", "outer_raised"}

\* The glossary stage keeping the extracted entries when the CSV writing raised.
GlossaryEntries_keep(o) ==
    IF o \in {"entries", "recovered", "csv_raised"} THEN <<"entry">> ELSE <<>>

\* The value generate_glossary returns under "glossary" for an outcome.
GlossaryEntries(o) == IF o \in {"entries", "recovered"} THEN <<"entry">> ELSE <<>>

\* Generation calls of the glossary stage: the structured call, and for
\* Chinese the raw call of the recovery.
GlossaryCalls(s, o) ==
    CASE o = "outer_raised" -> 0
      [] o = "recovered" -> 2
      [] o = "invoke_raised" -> IF s.language = "Chinese" THEN 2 ELSE 1
      [] OTHER -> 1

\* generate_glossary: extraction, then the CSV; any exception is caught and
\* the glossary is left empty. The edge generate_glossary -> END follows.
generate_glossary ==
    /\ node = "generate_glossary"
    /\ \E o \in GlossaryOutcomes :
          /\ (o = "recovered" => state.language = "Chinese")
          /\ state' = [state EXCEPT !.glossary = GlossaryEntries(o)]
          /\ llm_calls' = GlossaryCalls(state, o)
          /\ enrichment' = o
    /\ node' = "END"
    /\ UNCHANGED <<done, decision, gen_runs, eval_runs, okay_run, accepted_by,
                   failed_tries, batch_vars, other_vars>>

\* formater (not wired into the graph): the update it returns on state s.
formater(s) ==
    [s EXCEPT !.translation = Append(s.translation, [fmt |-> Len(s.translation) + 1])]

\* format_evaluator_feedback (not wired into the graph): the update it
\* returns on state s when the review says matched / not matched.
format_evaluator_feedback(s, matched) ==
    IF matched
    THEN [s EXCEPT !.formated = TRUE]
    ELSE [s EXCEPT !.formated = FALSE,
                   !.format_feedback_history =
                       Append(s.format_feedback_history, s.format_iteration),
                   !.format_iteration = s.format_iteration + 1]

GraphNext ==
    \/ commentary_translator_1
    \/ commentary_translator_2
    \/ commentary_translator_3
    \/ FanIn
    \/ aggregator
    \/ translation_generator
    \/ llm_call_evaluator
    \/ RouteTranslation
    \/ generate_glossary

\* ================================================================== coordinator
\* (idle values used while the stage graph specification runs)
BatchIdle ==
    /\ mode = "idle" /\ n_items = 0 /\ batch_size = 1 /\ max_retries = 0
    /\ pc = "idle" /\ batch_idx = 0 /\ batch_success = FALSE /\ batch_retries = 0
    /\ item_idx = 0 /\ item_success = FALSE /\ item_retries = 0
    /\ all_results = <<>> /\ all_failures = <<>>
    /\ success_log = <<>> /\ fail_log = <<>>
    /\ batch_attempts = <<>> /\ item_attempts = <<>>
    /\ degraded = {} /\ sink_faults = 0
    /\ batch_sleeps = <<>> /\ item_sleeps = <<>>

\* One Work Item handed to the compiled workflow, no coordinator running.
InitGraph == GraphInit /\ BatchIdle /\ FormatIdle /\ ContentIdle /\ ZsIdle /\ MoreIdle

SpecGraph ==
    /\ InitGraph
    /\ [][GraphNext]_vars

\* The stage graph built with either of the two commentary modules of the
\* repository, run on a Work Item of any target language.
GraphNextAny ==
    \/ GraphNext
    \/ aggregator_v2

InitGraphAny == GraphInitAny /\ BatchIdle /\ FormatIdle /\ ContentIdle /\ ZsIdle /\ MoreIdle

SpecGraphAny ==
    /\ InitGraphAny
    /\ [][GraphNextAny]_vars

\* The stage graph with the scheduling of the graph runtime: a node that is
\* scheduled runs.
FairSpecGraph ==
    /\ SpecGraph
    /\ WF_vars(GraphNext)

Min(a, b) == IF a <= b THEN a ELSE b

\* examples: one dictionary per input record, identified by its position.
examples == [i \in 1..n_items |-> i]

\* The slice s[a:b + 1]: one item too many.
Slice_overlap(s, a, b) == SubSeq(s, a + 1, Min(b + 1, Len(s)))

\* The Python slice s[a:b] (0-based, end clamped to the length).
Slice(s, a, b) == SubSeq(s, a + 1, Min(b, Len(s)))

\* range(0, len(examples), batch_size)
RangeStarts == {i \in 0..(n_items - 1) : i % batch_size = 0}

\* batches = [examples[i:i + batch_size] for i in range(0, len(examples), batch_size)]
batches ==
    [k \in 1..Cardinality(RangeStarts) |->
        Slice(examples, (k - 1) * batch_size, (k - 1) * batch_size + batch_size)]

\* The batch of the current iteration of "for batch_idx, batch in enumerate(batches)".
batch == batches[batch_idx + 1]

\* The locals of a coordinator before its first batch.
CoordinatorStart ==
    /\ pc = "for_batch"
    /\ batch_idx = 0
    /\ batch_success = FALSE /\ batch_retries = 0
    /\ item_idx = 0 /\ item_success = FALSE /\ item_retries = 0
    /\ all_results = <<>> /\ all_failures = <<>>
    /\ success_log = <<>> /\ fail_log = <<>>
    /\ batch_attempts = [k \in 1..Cardinality(RangeStarts) |-> <<>>]
    /\ item_attempts = [i \in 1..n_items |-> <<>>]
    /\ degraded = {}
    /\ sink_faults = 0
    /\ batch_sleeps = [k \in 1..Cardinality(RangeStarts) |-> 0]
    /\ item_sleeps = [i \in 1..n_items |-> 0]

\* A call of run_robust_batch_processing or of run (cli.py) with its arguments.
BatchInit ==
    /\ mode \in {"robust", "cli"}
    /\ n_items \in 0..MaxItems
    /\ batch_size \in 1..MaxBatchSize
    /\ max_retries \in 0..MaxRetries
    /\ (mode = "cli" => max_retries = 0)        \* run of cli.py has no retry parameter
    /\ CoordinatorStart

\* run_robust_batch_processing called on the 5 items of the scenario of the
\* specification, batch_size = 2, with a retry budget of 1 or of 2.
ScenarioInit ==
    /\ mode = "robust"
    /\ n_items = 5
    /\ batch_size = 2
    /\ max_retries \in 1..2
    /\ CoordinatorStart

\* (idle values used while a coordinator specification runs)
GraphIdle ==
    /\ state = InitialState("", "", "")
    /\ node = "idle" /\ done = {} /\ decision = "none"
    /\ gen_runs = 0 /\ eval_runs = 0 /\ okay_run = 0 /\ llm_calls = 0
    /\ enrichment = "none" /\ accepted_by = "none" /\ failed_tries = 0

\* convert_state_to_jsonl opened with mode 'w': the file is overwritten.
convert_state_to_jsonl_truncate(file, record) == <<record>>

\* convert_state_to_jsonl when it does not raise: one line is appended to
\* the file (open(file_path, 'a'), one json.dumps line, a newline).
convert_state_to_jsonl(file, record) == Append(file, record)

\* The file after convert_state_to_jsonl went through the first k records.
RECURSIVE WriteEach(_, _, _)
WriteEach(file, records, k) ==
    IF k = 0 THEN file
    ELSE convert_state_to_jsonl(WriteEach(file, records, k - 1), records[k])

\* all_results.append placed after the loop: only the last result is kept.
SaveResults_last(list, results, k) ==
    list \o (IF k = 0 THEN <<>> ELSE <<results[k]>>)

\* The list after all_results.append went through the first k results.
SaveResults(list, results, k) == list \o SubSeq(results, 1, k)

\* The except clause sleeping after every failed attempt, the last one included.
RetryDelay_always(sleeps, k, retries) == [sleeps EXCEPT ![k] = @ + 1]

\* "if retries < max_retries: time.sleep(retry_delay)" of an except clause:
\* the delays taken for batch (or item) k after its retries-th failed attempt.
RetryDelay(sleeps, k, retries) ==
    IF retries < max_retries THEN [sleeps EXCEPT ![k] = @ + 1] ELSE sleeps

\* "for batch_idx, batch in enumerate(batches)": the next batch starts.
StartBatch ==
    /\ mode = "robust"
    /\ pc = "for_batch"
    /\ batch_idx < Len(batches)
    /\ batch_success' = FALSE
    /\ batch_retries' = 0
    /\ pc' = "batch_while"
    /\ UNCHANGED <<mode, n_items, batch_size, max_retries, batch_idx, item_idx,
                   item_success, item_retries, all_results, all_failures, success_log,
                   fail_log, batch_attempts, item_attempts, degraded,
                   sink_faults, delay_vars, graph_vars, other_vars>>

\* One pass of "while not batch_success and batch_retries < max_retries":
\* the batched invocation, the saving of its results, the except clause.
BatchAttempt ==
    /\ mode = "robust"
    /\ pc = "batch_while"
    /\ ~batch_success /\ batch_retries < max_retries
    /\ \/ /\ batch_attempts' = [batch_attempts EXCEPT ![batch_idx + 1] = Append(@, "raise")]
          /\ batch_retries' = batch_retries + 1      \* optimizer_workflow.batch raises
          /\ batch_sleeps' = RetryDelay(batch_sleeps, batch_idx + 1, batch_retries + 1)
          /\ UNCHANGED <<batch_success, all_results, success_log, sink_faults>>
       \/ \E k \in 0..Len(batch) :                  \* it returns one result per item
          /\ success_log' = WriteEach(success_log, batch, k)
          /\ all_results' = SaveResults(all_results, batch, k)
          /\ IF k = Len(batch)
             THEN /\ batch_attempts' =
                         [batch_attempts EXCEPT ![batch_idx + 1] = Append(@, "ok")]
                  /\ batch_success' = TRUE
                  /\ UNCHANGED <<batch_retries, sink_faults, batch_sleeps>>
             ELSE /\ sink_faults < MaxSinkFaults     \* convert_state_to_jsonl raises
                  /\ batch_attempts' =
                         [batch_attempts EXCEPT ![batch_idx + 1] = Append(@, "save_raise")]
                  /\ sink_faults' = sink_faults + 1
                  /\ batch_retries' = batch_retries + 1
                  /\ batch_sleeps' = RetryDelay(batch_sleeps, batch_idx + 1, batch_retries + 1)
                  /\ UNCHANGED batch_success
    /\ UNCHANGED <<mode, n_items, batch_size, max_retries, pc, batch_idx, item_idx,
                   item_success, item_retries, all_failures, fail_log, item_attempts,
                   degraded, item_sleeps, graph_vars, other_vars>>

\* The batch while-loop is left: "if not batch_success" starts the items of
\* the batch, otherwise the for-loop goes on to the next batch.
BatchWhileExit ==
    /\ mode = "robust"
    /\ pc = "batch_while"
    /\ (batch_success \/ batch_retries >= max_retries)
    /\ IF ~batch_success
       THEN /\ pc' = "for_item"
            /\ item_idx' = 0
            /\ degraded' = degraded \cup {batch_idx + 1}
            /\ UNCHANGED batch_idx
       ELSE /\ pc' = "for_batch"
            /\ batch_idx' = batch_idx + 1
            /\ UNCHANGED <<item_idx, degraded>>
    /\ UNCHANGED <<mode, n_items, batch_size, max_retries, batch_success, batch_retries,
                   item_success, item_retries, all_results, all_failures, success_log,
                   fail_log, batch_attempts, item_attempts, sink_faults,
                   delay_vars, graph_vars, other_vars>>

\* The item loop counting its retries on from the counter of the batch loop.
StartItem_shared ==
    /\ mode = "robust"
    /\ pc = "for_item"
    /\ item_idx < Len(batch)
    /\ item_success' = FALSE
    /\ item_retries' = batch_retries
    /\ pc' = "item_while"
    /\ UNCHANGED <<mode, n_items, batch_size, max_retries, batch_idx, batch_success,
                   batch_retries, item_idx, all_results, all_failures, success_log,
                   fail_log, batch_attempts, item_attempts, degraded,
                   sink_faults, delay_vars, graph_vars, other_vars>>

\* "for item_idx, item in enumerate(batch)": the next item starts.
StartItem ==
    /\ mode = "robust"
    /\ pc = "for_item"
    /\ item_idx < Len(batch)
    /\ item_success' = FALSE
    /\ item_retries' = 0
    /\ pc' = "item_while"
    /\ UNCHANGED <<mode, n_items, batch_size, max_retries, batch_idx, batch_success,
                   batch_retries, item_idx, all_results, all_failures, success_log,
                   fail_log, batch_attempts, item_attempts, degraded,
                   sink_faults, delay_vars, graph_vars, other_vars>>

\* The except clause of an individual attempt without "item_retries += 1".
ItemExcept_nocount(faults) ==
    /\ item_retries' = item_retries
    /\ item_sleeps' = RetryDelay(item_sleeps, batch[item_idx + 1], item_retries + 1)
    /\ IF item_retries + 1 < max_retries
       THEN /\ sink_faults' = faults
            /\ UNCHANGED <<all_failures, fail_log, pc>>
       ELSE /\ all_failures' = Append(all_failures, batch[item_idx + 1])
            /\ \/ /\ fail_log' = convert_state_to_jsonl(fail_log, batch[item_idx + 1])
                  /\ sink_faults' = faults
                  /\ UNCHANGED pc
               \/ /\ faults < MaxSinkFaults
                  /\ sink_faults' = faults + 1
                  /\ pc' = "aborted"
                  /\ UNCHANGED fail_log

\* The except clause of an individual attempt, entered after `faults` raises
\* of convert_state_to_jsonl: the retry is counted and, once the budget is
\* used up, the item is appended to all_failures and then written to the
\* failure log; a raise of that write leaves the function.
ItemExcept(faults) ==
    /\ item_retries' = item_retries + 1
    /\ item_sleeps' = RetryDelay(item_sleeps, batch[item_idx + 1], item_retries + 1)
    /\ IF item_retries + 1 < max_retries
       THEN /\ sink_faults' = faults
            /\ UNCHANGED <<all_failures, fail_log, pc>>
       ELSE /\ all_failures' = Append(all_failures, batch[item_idx + 1])
            /\ \/ /\ fail_log' = convert_state_to_jsonl(fail_log, batch[item_idx + 1])
                  /\ sink_faults' = faults
                  /\ UNCHANGED pc
               \/ /\ faults < MaxSinkFaults            \* convert_state_to_jsonl raises
                  /\ sink_faults' = faults + 1
                  /\ pc' = "aborted"
                  /\ UNCHANGED fail_log

\* One pass of "while not item_success and item_retries < max_retries".
ItemAttempt ==
    /\ mode = "robust"
    /\ pc = "item_while"
    /\ ~item_success /\ item_retries < max_retries
    /\ \/ /\ item_attempts' = [item_attempts EXCEPT ![batch[item_idx + 1]] = Append(@, "raise")]
          /\ ItemExcept(sink_faults)                \* optimizer_workflow.batch raises
          /\ UNCHANGED <<item_success, all_results, success_log>>
       \/ /\ item_attempts' = [item_attempts EXCEPT ![batch[item_idx + 1]] = Append(@, "ok")]
          /\ success_log' = convert_state_to_jsonl(success_log, batch[item_idx + 1])   \* result[0] saved
          /\ all_results' = Append(all_results, batch[item_idx + 1])
          /\ item_success' = TRUE
          /\ UNCHANGED <<item_retries, all_failures, fail_log, pc, sink_faults, item_sleeps>>
       \/ /\ item_attempts' = [item_attempts EXCEPT
                                 ![batch[item_idx + 1]] = Append(@, "save_raise")]
          /\ sink_faults < MaxSinkFaults            \* convert_state_to_jsonl raises
          /\ ItemExcept(sink_faults + 1)
          /\ UNCHANGED <<item_success, all_results, success_log>>
    /\ UNCHANGED <<mode, n_items, batch_size, max_retries, batch_idx, batch_success,
                   batch_retries, item_idx, batch_attempts, degraded, batch_sleeps,
                   graph_vars, other_vars>>

\* The item while-loop is left, with a permanent failure ending the run.
ItemWhileExit_break ==
    /\ mode = "robust"
    /\ pc = "item_while"
    /\ (item_success \/ item_retries >= max_retries)
    /\ IF item_success
       THEN item_idx' = item_idx + 1 /\ pc' = "for_item" /\ UNCHANGED batch_idx
       ELSE batch_idx' = Len(batches) /\ pc' = "for_batch" /\ UNCHANGED item_idx
    /\ UNCHANGED <<mode, n_items, batch_size, max_retries, batch_success,
                   batch_retries, item_success, item_retries, all_results, all_failures,
                   success_log, fail_log, batch_attempts, item_attempts,
                   degraded, sink_faults, delay_vars, graph_vars, other_vars>>

\* The item while-loop is left: the for-loop goes on to the next item.
ItemWhileExit ==
    /\ mode = "robust"
    /\ pc = "item_while"
    /\ (item_success \/ item_retries >= max_retries)
    /\ item_idx' = item_idx + 1
    /\ pc' = "for_item"
    /\ UNCHANGED <<mode, n_items, batch_size, max_retries, batch_idx, batch_success,
                   batch_retries, item_success, item_retries, all_results, all_failures,
                   success_log, fail_log, batch_attempts, item_attempts,
                   degraded, sink_faults, delay_vars, graph_vars, other_vars>>

\* The items of the batch are exhausted: on to the next batch.
EndItems ==
    /\ mode = "robust"
    /\ pc = "for_item"
    /\ item_idx >= Len(batch)
    /\ batch_idx' = batch_idx + 1
    /\ pc' = "for_batch"
    /\ UNCHANGED <<mode, n_items, batch_size, max_retries, batch_success, batch_retries,
                   item_idx, item_success, item_retries, all_results, all_failures,
                   success_log, fail_log, batch_attempts, item_attempts,
                   degraded, sink_faults, delay_vars, graph_vars, other_vars>>

\* run of cli.py: one iteration of "for batch in batches" with its try/except.
\* The results are written one by one and then added to the list; the except
\* clause writes every item of the batch to the failure log.
CliBatch ==
    /\ mode = "cli"
    /\ pc = "for_batch"
    /\ batch_idx < Len(batches)
    /\ \E ok \in BOOLEAN, k \in 0..Len(batch), f \in 0..Len(batch) :
       /\ batch_attempts' =
              [batch_attempts EXCEPT
                  ![batch_idx + 1] = Append(@, IF ~ok THEN "raise"
                                               ELSE IF k = Len(batch) THEN "ok"
                                               ELSE "save_raise")]
       /\ (~ok => k = 0)
       /\ success_log' = WriteEach(success_log, batch, k)
       /\ IF ok /\ k = Len(batch)
          THEN /\ f = 0
               /\ all_results' = all_results \o batch      \* results.extend(batch_results)
               /\ batch_idx' = batch_idx + 1
               /\ UNCHANGED <<fail_log, pc, sink_faults>>
          ELSE /\ fail_log' = WriteEach(fail_log, batch, f)
               /\ sink_faults' = sink_faults + (IF ok THEN 1 ELSE 0)
                                             + (IF f < Len(batch) THEN 1 ELSE 0)
               /\ sink_faults' <= MaxSinkFaults
               /\ IF f = Len(batch)
                  THEN batch_idx' = batch_idx + 1 /\ UNCHANGED pc
                  ELSE pc' = "aborted" /\ UNCHANGED batch_idx
               /\ UNCHANGED all_results
    /\ UNCHANGED <<mode, n_items, batch_size, max_retries, batch_success, batch_retries,
                   item_idx, item_success, item_retries, all_failures, item_attempts,
                   degraded, delay_vars, graph_vars, other_vars>>

\* The for-loop over the batches is exhausted: the summary, then return.
Return ==
    /\ pc = "for_batch"
    /\ batch_idx >= Len(batches)
    /\ pc' = "done"
    /\ UNCHANGED <<mode, n_items, batch_size, max_retries, batch_idx, batch_success,
                   batch_retries, item_idx, item_success, item_retries, all_results,
                   all_failures, success_log, fail_log, batch_attempts, item_attempts,
                   degraded, sink_faults, delay_vars, graph_vars, other_vars>>

BatchNext ==
    \/ StartBatch
    \/ BatchAttempt
    \/ BatchWhileExit
    \/ StartItem
    \/ ItemAttempt
    \/ ItemWhileExit
    \/ EndItems
    \/ CliBatch
    \/ Return

InitBatch == BatchInit /\ GraphIdle /\ FormatIdle /\ ContentIdle /\ ZsIdle /\ MoreIdle

SpecBatch ==
    /\ InitBatch
    /\ [][BatchNext]_vars

RobustNext ==
    \/ StartBatch
    \/ BatchAttempt
    \/ BatchWhileExit
    \/ StartItem
    \/ ItemAttempt
    \/ ItemWhileExit
    \/ EndItems
    \/ Return

InitScenario == ScenarioInit /\ GraphIdle /\ FormatIdle /\ ContentIdle /\ ZsIdle /\ MoreIdle

SpecScenario ==
    /\ InitScenario
    /\ [][RobustNext]_vars

\* ================================================================== claims: stage graph

\* C1: in every reachable state of a Work Item in the translation stage
\* graph, whatever the evaluator answers, itteration is at most
\* MAX_TRANSLATION_ITERATIONS and format_iteration at most MAX_FORMAT_ITERATIONS.
C1_IterationBound ==
    /\ state.itteration <= MAX_TRANSLATION_ITERATIONS
    /\ state.format_iteration <= MAX_FORMAT_ITERATIONS

\* A Work Item completed with the content counter at its ceiling.
C1_Witness ==
    /\ node = "END"
    /\ state.itteration = MAX_TRANSLATION_ITERATIONS
    /\ gen_runs = MAX_TRANSLATION_ITERATIONS + 1

\* C2: whatever the verdicts, a run in which no generation call raises leaves
\* the generate/evaluate loop for generate_glossary and reaches END (a run
\* ends at "raised" only when a call raised).
C2_Terminates ==
    /\ <>(node = "END" \/ node = "raised")
    /\ [](node = "llm_call_evaluator" =>
             <>(node = "generate_glossary" \/ node = "raised"))

\* A Work Item at END that was never graded great through four evaluations.
C2_Witness ==
    /\ node = "END"
    /\ eval_runs = MAX_TRANSLATION_ITERATIONS + 1
    /\ state.grade # "great"
    /\ ~state.formated

\* The row of the decision table of the content Router for a state.
TableRow(s) ==
    CASE s.grade = "great" /\ s.formated = TRUE -> "Accept"
      [] ~(s.grade = "great" /\ s.formated = TRUE)
            /\ s.itteration >= MAX_TRANSLATION_ITERATIONS -> "ForceAccept"
      [] ~(s.grade = "great" /\ s.formated = TRUE)
            /\ s.itteration < MAX_TRANSLATION_ITERATIONS -> "Retry"

\* C3: every step of the content Router follows the decision table: Accept
\* and ForceAccept return "Accepted" and lead to generate_glossary, Retry
\* returns "Rejected + Feedback" and leads to translation_generator, and the
\* step changes no field of the Work Item.
C3_RouterTable ==
    [][node = "route_translation" =>
         /\ state' = state
         /\ decision' = (IF TableRow(state) = "Retry"
                         THEN "Rejected + Feedback" ELSE "Accepted")
         /\ node' = (IF TableRow(state) = "Retry"
                     THEN "translation_generator" ELSE "generate_glossary")]_vars

\* The Router has force-accepted: accepted at the ceiling without great + format.
C3_Witness ==
    /\ node = "generate_glossary"
    /\ decision = "Accepted"
    /\ state.itteration = MAX_TRANSLATION_ITERATIONS
    /\ state.grade = "okay"

\* Every verdict so far was a full evaluation with grade "okay".
AllOkay == eval_runs > 0 /\ okay_run = eval_runs

Elems(s) == {s[p] : p \in DOMAIN s}

Count(x, s) == Cardinality({p \in DOMAIN s : s[p] = x})

\* The sequence lists items in input order (never a later item before an earlier one).
InInputOrder(s) == \A p \in DOMAIN s, q \in DOMAIN s : p < q => s[p] <= s[q]

\* The batch (1-based) that holds item i.
BatchOf(i) == ((i - 1) \div batch_size) + 1

\* The workflow has been invoked on item i, batched or individually.
Attempted(i) == batch_attempts[BatchOf(i)] # <<>> \/ item_attempts[i] # <<>>

\* C5: after a run of a coordinator, whatever raised inside an attempt, no
\* Work Item is in both the success sink and the failure sink.
C5_TerminalExclusivity ==
    pc = "done" =>
        /\ Elems(success_log) \cap Elems(fail_log) = {}
        /\ Elems(all_results) \cap Elems(all_failures) = {}

\* C6: when run_robust_batch_processing returns, every item of a batch that
\* failed all its batch-level attempts was attempted individually at least
\* once and is in exactly one of all_results, all_failures, exactly once.
C6_Degradation ==
    (mode = "robust" /\ pc = "done") =>
        \A k \in degraded : \A i \in Elems(batches[k]) :
            /\ item_attempts[i] # <<>>
            /\ Count(i, all_results) + Count(i, all_failures) = 1

\* The workflow outcomes of the scenario, apart from the batched attempts on
\* batch [3,4]: batch [1,2] and batch [5] succeed on their first try, item 3
\* succeeds on its first individual try, item 4 fails both individual tries,
\* and no write to a log raises.
ScenarioRun ==
    /\ mode = "robust" /\ pc = "done" /\ sink_faults = 0
    /\ n_items = 5 /\ batch_size = 2
    /\ Len(batches) = 3
    /\ batch_attempts[1] = <<"ok">>
    /\ batch_attempts[3] = <<"ok">>
    /\ Elems(batch_attempts[2]) = {"raise"}
    /\ item_attempts = <<(<<>>), (<<>>), (<<"ok">>), (<<"raise", "raise">>), (<<>>)>>

ScenarioOutcome ==
    /\ success_log = <<1, 2, 3, 5>> /\ all_results = <<1, 2, 3, 5>>
    /\ fail_log = <<4>> /\ all_failures = <<4>>
    /\ Len(all_results) = 4 /\ Len(all_failures) = 1

C9_Streaming ==
    /\ mode = "robust" => success_log = all_results
    /\ mode = "cli" => \A i \in 1..n_items : Count(i, all_results) <= Count(i, success_log)

\* Successes of a batched attempt and of an individual attempt are on disk
\* while a later batch is still being worked on.
C9_Witness ==
    /\ mode = "robust" /\ pc = "batch_while" /\ batch_idx = 2
    /\ ~batch_success
    /\ batch_attempts[1] = <<"ok">>
    /\ item_attempts[2] = <<"ok">>
    /\ success_log = <<1, 2>>
    /\ degraded = {2}

\* C10: at every point of a run the success log, all_results, the failure
\* log and all_failures each list items in input order.
C10_OrderPreserved ==
    /\ InInputOrder(success_log) /\ InInputOrder(all_results)
    /\ InInputOrder(fail_log) /\ InInputOrder(all_failures)

\* The concatenation of the first k sequences of a sequence of sequences.
RECURSIVE Flatten(_, _)
Flatten(ss, k) == IF k = 0 THEN <<>> ELSE Flatten(ss, k - 1) \o ss[k]

\* C11: the batches are consecutive slices of the input: every batch but
\* the last has exactly batch_size items, the last has between 1 and
\* batch_size, batch k starts at input position (k - 1) * batch_size, and the
\* batches concatenated in order are the input in its order.
C11_Partition ==
    /\ \A k \in DOMAIN batches :
          /\ Len(batches[k]) >= 1
          /\ Len(batches[k]) <= batch_size
          /\ (k < Len(batches) => Len(batches[k]) = batch_size)
          /\ \A j \in DOMAIN batches[k] :
                batches[k][j] = examples[(k - 1) * batch_size + j]
    /\ Flatten(batches, Len(batches)) = examples
    /\ (n_items = 0 => batches = <<>>)

\* The coordinator works on a short last batch that follows a full one.
C11_Witness ==
    /\ n_items = 3 /\ batch_size = 2
    /\ pc = "batch_while" /\ batch_idx = 1
    /\ batches = <<(<<1, 2>>), (<<3>>)>>
    /\ batch = <<3>>

\* The failed attempts of a history of attempt outcomes.
Failures(a) == Cardinality({p \in DOMAIN a : a[p] # "ok"})

\* A successful attempt is the last one of its history.
StopsAtFirstSuccess(a) == \A p \in DOMAIN a : a[p] = "ok" => p = Len(a)

\* The delays taken between the consecutive attempts of a history under the
\* budget max_retries: one after each failed attempt but the budget's last.
DelaysBetween(a) == IF max_retries = 0 THEN 0 ELSE Min(Failures(a), max_retries - 1)

\* C12: in run_robust_batch_processing every batch gets at most max_retries
\* batched attempts and none after a successful one; an item is attempted
\* individually only when all max_retries batched attempts of its batch have
\* failed; one delay is taken after each failed batched attempt that is
\* followed by another, and none after the last attempt of the budget.
C12_BatchRetries ==
    mode = "robust" =>
        \A k \in DOMAIN batches :
            /\ Len(batch_attempts[k]) <= max_retries
            /\ StopsAtFirstSuccess(batch_attempts[k])
            /\ \A i \in Elems(batches[k]) :
                  item_attempts[i] # <<>> =>
                      /\ k \in degraded
                      /\ Len(batch_attempts[k]) = max_retries
                      /\ "ok" \notin Elems(batch_attempts[k])
            /\ batch_sleeps[k] = DelaysBetween(batch_attempts[k])

\* One batch succeeded on its second attempt after one delay, another used
\* up both attempts with one delay and went on to its item.
C12_Witness ==
    /\ mode = "robust" /\ pc = "done"
    /\ n_items = 2 /\ batch_size = 1 /\ max_retries = 2
    /\ batch_attempts = <<(<<"raise", "ok">>), (<<"raise", "raise">>)>>
    /\ batch_sleeps = <<1, 1>>
    /\ item_attempts[1] = <<>> /\ item_attempts[2] # <<>>

\* C13: in degraded processing the retry counter of the item loop counts the
\* failed attempts of the current item only (it starts at zero for every
\* item); an item gets at most max_retries individual attempts and none
\* after a successful one; an item is a permanent failure only after
\* max_retries attempts of its own, and at the return every item of a
\* degraded batch either succeeded or had max_retries attempts, whatever the
\* batch loop and its batch-mates used up.
C13_ItemBudget ==
    mode = "robust" =>
        /\ \A i \in 1..n_items :
              /\ Len(item_attempts[i]) <= max_retries
              /\ StopsAtFirstSuccess(item_attempts[i])
        /\ (pc = "item_while" =>
               item_retries = Failures(item_attempts[batch[item_idx + 1]]))
        /\ \A i \in Elems(all_failures) : Len(item_attempts[i]) = max_retries
        /\ (pc = "done" =>
               \A k \in degraded : \A i \in Elems(batches[k]) :
                   \/ "ok" \in Elems(item_attempts[i])
                   \/ Len(item_attempts[i]) = max_retries)

\* After a batch that used up its budget, item 1 used up its own and its
\* batch-mate still had two attempts.
C13_Witness ==
    /\ mode = "robust" /\ pc = "done"
    /\ n_items = 2 /\ batch_size = 2 /\ max_retries = 2
    /\ batch_attempts[1] = <<"raise", "raise">>
    /\ item_attempts = <<(<<"raise", "raise">>), (<<"raise", "ok">>)>>
    /\ all_failures = <<1>> /\ all_results = <<2>>

\* ================================================================== claims: histories
IsPrefix(a, b) == Len(a) <= Len(b) /\ SubSeq(b, 1, Len(a)) = a

Last(q) == q[Len(q)]

\* C14: a Work Item that has completed the stage graph has as many feedback
\* entries as its counter itteration says.
C14_HistoryCorrespondence ==
    node = "END" => Len(state.feedback_history) = state.itteration

\* C15: every entry of feedback_history is the feedback of an evaluation,
\* and the entry at index i is about the artifact at index i.
C15_IndexCorrespondence ==
    \A i \in DOMAIN state.feedback_history :
        /\ state.feedback_history[i].kind \in {"grade", "language"}
        /\ state.feedback_history[i].about = i

\* C16: every step of the stage graph leaves the old translation list and
\* the old feedback_history as prefixes of the new ones, the translation
\* list is non-empty once translation_generator has run, and the formatting
\* stages, run on any reachable state with an artifact, only append to the
\* translation list and leave feedback_history alone.
C16_AppendOnly ==
    /\ [][/\ IsPrefix(state.translation, state'.translation)
          /\ IsPrefix(state.feedback_history, state'.feedback_history)]_vars
    /\ [](gen_runs >= 1 => state.translation # <<>>)
    /\ [](state.translation # <<>> =>
             /\ IsPrefix(state.translation, formater(state).translation)
             /\ Len(formater(state).translation) = Len(state.translation) + 1
             /\ formater(state).feedback_history = state.feedback_history
             /\ \A matched \in BOOLEAN :
                   /\ format_evaluator_feedback(state, matched).translation
                         = state.translation
                   /\ format_evaluator_feedback(state, matched).feedback_history
                         = state.feedback_history)

\* A Work Item at END with four artifacts and five feedback entries.
C16_Witness ==
    /\ node = "END"
    /\ Len(state.translation) = 4
    /\ Len(state.feedback_history) = 5

\* C17: a Retry leads back to translation_generator, whose pass increments
\* itteration by exactly 1 and appends exactly one artifact; the rejection
\* it answers added exactly one feedback entry (one entry per evaluation,
\* about the latest artifact); Accept, ForceAccept and the glossary stage
\* change neither the counter nor the artifact history.
C17_RetryStep ==
    /\ [][/\ (node = "route_translation" /\ decision' = "Rejected + Feedback") =>
               (node' = "translation_generator" /\ state' = state)
          /\ (node = "translation_generator" /\ decision = "Rejected + Feedback"
                 /\ node' = "llm_call_evaluator") =>
               /\ state'.itteration = state.itteration + 1
               /\ Len(state'.translation) = Len(state.translation) + 1
               /\ IsPrefix(state.translation, state'.translation)
               /\ state'.feedback_history = state.feedback_history
          /\ (node = "llm_call_evaluator" /\ node' = "route_translation") =>
               /\ Len(state'.feedback_history) = Len(state.feedback_history) + 1
               /\ Last(state'.feedback_history).about = Len(state.translation)
               /\ state'.itteration = state.itteration
               /\ state'.translation = state.translation
          /\ ((node = "route_translation" /\ decision' = "Accepted")
                 \/ node = "generate_glossary") =>
               /\ node' \in {"generate_glossary", "END"}
               /\ state'.itteration = state.itteration
               /\ state'.translation = state.translation
               /\ state'.feedback_history = state.feedback_history]_vars
    /\ [](gen_runs >= 1 =>
             /\ state.itteration = gen_runs - 1
             /\ Len(state.translation) = gen_runs
             /\ Len(state.feedback_history) = 1 + eval_runs)

\* The second retry pass has run.
C17_Witness ==
    /\ node = "llm_call_evaluator"
    /\ decision = "Rejected + Feedback"
    /\ state.itteration = 2
    /\ Len(state.translation) = 3
    /\ Len(state.feedback_history) = 3

\* C18: an evaluation that ends with the language-error entry made exactly
\* one call (the language check), set grade "bad", formated False and
\* is_target_language False, appended that one entry and changed nothing
\* else of the histories; the Router then returns Retry under the ceiling
\* and ForceAccept at the ceiling.
C18_LanguageMismatch ==
    [][/\ (node = "llm_call_evaluator" /\ node' = "route_translation"
              /\ Last(state'.feedback_history).kind = "language") =>
            /\ llm_calls' = 1
            /\ state'.grade = "bad"
            /\ state'.formated = FALSE
            /\ state'.is_target_language = FALSE
            /\ state'.feedback_history =
                   Append(state.feedback_history,
                          [kind |-> "language", iter |-> state.itteration,
                           about |-> Len(state.translation)])
            /\ state'.translation = state.translation
            /\ state'.itteration = state.itteration
       /\ (node = "route_translation"
              /\ Last(state.feedback_history).kind = "language") =>
            /\ (state.itteration < MAX_TRANSLATION_ITERATIONS =>
                  (decision' = "Rejected + Feedback" /\ node' = "translation_generator"))
            /\ (state.itteration >= MAX_TRANSLATION_ITERATIONS =>
                  (decision' = "Accepted" /\ node' = "generate_glossary"))]_vars

\* A language mismatch at the ceiling has been force-accepted after an
\* earlier one was retried.
C18_Witness ==
    /\ node = "generate_glossary"
    /\ state.itteration = MAX_TRANSLATION_ITERATIONS
    /\ Last(state.feedback_history).kind = "language"
    /\ state.feedback_history[2].kind = "language"
    /\ state.grade = "bad"

\* ================================================================== claims: aggregator, glossary
\* C19: every aggregator step follows the policy: with no commentary one
\* generation call and a value derived from the source alone; with exactly
\* one commentary no call and that commentary passed through; with two or
\* three commentaries exactly one combination call.
C19_AggregatorPolicy ==
    [][node = "aggregator" =>
         LET n == commentary_count(state) IN
         /\ (n = 0 =>
                /\ llm_calls' = 1
                /\ (node' # "raised" => state'.combined_commentary = "source_analysis"))
         /\ (n = 1 =>
                /\ llm_calls' = 0
                /\ node' = "translation_generator"
                /\ state'.combined_commentary =
                      (IF has_commentary(state.commentary1_translation) THEN "commentary1"
                       ELSE IF has_commentary(state.commentary2_translation)
                            THEN "commentary2" ELSE "commentary3"))
         /\ (n >= 2 =>
                /\ llm_calls' = 1
                /\ (node' # "raised" => state'.combined_commentary = "combined"))]_vars

\* C20: the glossary stage never raises: its step leads to END and changes
\* nothing of the Work Item but the glossary, and after a failure of the
\* extraction or of the CSV writing the glossary is the empty list.
C20_EnrichmentNonFatal ==
    /\ [][node = "generate_glossary" =>
             /\ node' = "END"
             /\ state' = [state EXCEPT !.glossary = state'.glossary]
             /\ (enrichment' \in GlossaryFailures => state'.glossary = <<>>)]_vars
    /\ [](node = "END" => enrichment # "none")
    /\ []((node = "END" /\ enrichment \in GlossaryFailures) => state.glossary = <<>>)

\* An accepted Work Item at END whose entries were extracted but whose CSV
\* writing raised.
C20_Witness ==
    /\ node = "END"
    /\ enrichment = "csv_raised"
    /\ state.glossary = <<>>
    /\ state.grade = "great" /\ state.formated
    /\ Len(state.translation) = 2

\* ================================================================== multi-language content
\* Longest list of target languages handed to generate_all_content.
MaxLanguages == 2

\* The lists of target languages a caller can hand in (a language may repeat).
TargetLanguageLists == UNION {[1..n -> Languages] : n \in 0..MaxLanguages}

\* generate_all_content entered: results = {'translations': {}, 'glossaries': {}}.
ContentInit ==
    /\ target_languages \in TargetLanguageLists
    /\ content_pc = "loop"
    /\ lang_idx = 0
    /\ content_results = [translations |-> <<>>, glossaries |-> <<>>]
    /\ content_log = <<>>

\* d[key] = value on a dictionary d.
SetItem(d, key, value) == (key :> value) @@ d

\* How generate_translation can go for a language: a TranslationResult or a raise.
TranslationOutcomes == {"ok", "raise"}

\* How generate_glossary can go: entries, an empty list (no entries in the
\* response, or every entry skipped for missing fields), or a raise.
GlossaryCallOutcomes == {"entries", "empty", "raise"}

\* The list generate_glossary returns for an outcome that is not a raise.
GlossaryList(g) == IF g = "entries" THEN <<"entry">> ELSE <<>>

ContentExcept_drop(r, language) == r

\* The except clause of the loop body: both keys of the language are overwritten.
ContentExcept(r, language) ==
    [translations |-> SetItem(r.translations, language, "None"),
     glossaries |-> SetItem(r.glossaries, language, <<>>)]

\* The body of the for loop for one language: the try block, and its except
\* clause when generate_translation (t) or generate_glossary (g) raises.
ContentBody(r, language, t, g) ==
    IF t = "raise"
    THEN ContentExcept(r, language)
    ELSE LET r1 == [r EXCEPT !.translations =
                                 SetItem(r.translations, language, "translation")]
         IN  IF g = "raise"
             THEN ContentExcept(r1, language)
             ELSE [r1 EXCEPT !.glossaries =
                                 SetItem(r1.glossaries, language, GlossaryList(g))]

\* One iteration of `for language in target_languages`.
generate_all_content ==
    /\ content_pc = "loop"
    /\ lang_idx < Len(target_languages)
    /\ \E t \in TranslationOutcomes, g \in GlossaryCallOutcomes :
          LET language == target_languages[lang_idx + 1] IN
          /\ content_results' = ContentBody(content_results, language, t, g)
          /\ content_log' = Append(content_log,
                                   [language |-> language, translation |-> t,
                                    glossary |-> IF t = "raise" THEN "not_called" ELSE g])
    /\ lang_idx' = lang_idx + 1
    /\ UNCHANGED <<target_languages, content_pc, graph_vars, batch_vars, format_vars,
                   zs_vars, more_vars>>

\* return results
ContentReturn ==
    /\ content_pc = "loop"
    /\ lang_idx = Len(target_languages)
    /\ content_pc' = "returned"
    /\ UNCHANGED <<target_languages, lang_idx, content_results, content_log,
                   graph_vars, batch_vars, format_vars, zs_vars,
                   more_vars>>

ContentNext ==
    \/ generate_all_content
    \/ ContentReturn

InitContent == ContentInit /\ GraphIdle /\ BatchIdle /\ FormatIdle /\ ZsIdle /\ MoreIdle

SpecContent ==
    /\ InitContent
    /\ [][ContentNext]_vars

\* The entry of content_log that decided the keys of its language: the last
\* iteration run for that language.
LastFor(p) ==
    \A q \in DOMAIN content_log :
        q > p => content_log[q].language # content_log[p].language

\* C21: in generate_all_content, when generate_translation succeeds for a
\* language and generate_glossary raises for it, the result holds the
\* generated translation of that language together with an empty glossary.
C21_TranslationKept ==
    \A p \in DOMAIN content_log :
        (/\ LastFor(p)
         /\ content_log[p].translation = "ok"
         /\ content_log[p].glossary = "raise")
        => /\ content_results.translations[content_log[p].language] = "translation"
           /\ content_results.glossaries[content_log[p].language] = <<>>

\* C22: every generation call of a stage that raises is retried exactly once,
\* and the error propagates only on the second failure: a node that raised
\* has issued its failing call exactly twice.
C22_CallSiteRetry ==
    node = "raised" => failed_tries = 2

\* ================================================================== zero-shot translator
\* documents: one dictionary per input document, identified by its position.
documents == [i \in 1..zs_n |-> i]

\* create_batches: [items[i:i + batch_size] for i in range(0, len(items), batch_size)]
create_batches(items, size) ==
    LET starts == {i \in 0..(Len(items) - 1) : i % size = 0}
    IN  [k \in 1..Cardinality(starts) |-> Slice(items, (k - 1) * size, k * size)]

\* batch_translate_documents entered.
ZsInit ==
    /\ zs_n \in 0..MaxItems
    /\ zs_batch_size \in 1..MaxBatchSize
    /\ skip_commentary \in BOOLEAN
    /\ zs_pc = "loop"
    /\ zs_batch_idx = 0
    /\ processed_documents = <<>>
    /\ zs_calls = [i \in 1..zs_n |-> "none"]
    /\ zs_source \in [1..zs_n -> {"text", "empty"}]
    /\ zs_batch_log = <<>>

\* response.content of the generation call whose prompt is built from document d
Response(d) == [text |-> "translation", of |-> d]

\* the empty string as a translation
NoTranslation == [text |-> "", of |-> 0]

\* valid_indices: the positions in the batch (from 1) of the documents whose
\* source is not empty; valid_prompts is parallel to it.
valid_indices(b) ==
    SelectSeq([i \in 1..Len(b) |-> i], LAMBDA i : zs_source[b[i]] = "text")

ResultSlot_dense(vi, k) == k

\* response_idx of the k-th response: results[response_idx] is assigned
ResultSlot(vi, k) == vi[k]

\* generate_translations_batch when llm.batch returns r responses:
\* results starts as one empty translation per document of the batch, and
\* responses[k] (the answer to the prompt of b[valid_indices[k]]) is stored
\* at results[valid_indices[k]] for every k < len(responses).
generate_translations_batch(b, r) ==
    LET vi == valid_indices(b)
        filled(i) == {k \in 1..Min(r, Len(vi)) : ResultSlot(vi, k) = i}
    IN  [i \in 1..Len(b) |->
            IF filled(i) # {}
            THEN [translation |-> Response(b[vi[CHOOSE k \in filled(i) : \A q \in filled(i) : q <= k]])]
            ELSE [translation |-> NoTranslation]]

\* Step 1 for one document: the commentary of the batched call, or the empty
\* string of the except clause; the key is left alone when the step is skipped.
CommentaryStep(skip, c) ==
    IF skip THEN "unset" ELSE IF c = "ok" THEN "commentary" ELSE ""

\* Step 2 for document d at position i of its batch: the entry of the list
\* returned by generate_translations_batch (t), or the answer to the
\* individual call of the fallback (f), or the string the except clause of
\* the individual call stores.
TranslationStep(results, i, d, t, f) ==
    IF t = "ok" THEN results[i].translation
    ELSE IF f = "ok" THEN Response(d)
    ELSE [text |-> "Translation failed", of |-> 0]

\* How the last translation call made for a document went.
LastCall(t, f) == IF t = "ok" THEN "ok" ELSE f

\* One iteration of `for batch_idx, batch in enumerate(batches)`: the
\* commentary step, the translation step with its fallback to individual
\* calls, and processed_documents.extend(batch).
batch_translate_documents ==
    /\ zs_pc = "loop"
    /\ zs_batch_idx < Len(create_batches(documents, zs_batch_size))
    /\ LET b == create_batches(documents, zs_batch_size)[zs_batch_idx + 1] IN
       \E c \in {"ok", "raise"}, t \in {"ok", "raise"},
          f \in [1..Len(b) -> {"ok", "raise"}], r \in 0..Len(valid_indices(b)) :
          /\ (skip_commentary => c = "ok")
          /\ (t = "ok" => \A i \in 1..Len(b) : f[i] = "ok")
          /\ (t = "raise" => r = 0)
          /\ processed_documents' =
                 processed_documents \o
                 [i \in 1..Len(b) |->
                     [id |-> b[i],
                      combined_commentary |-> CommentaryStep(skip_commentary, c),
                      translation |->
                         TranslationStep(generate_translations_batch(b, r), i, b[i],
                                         t, f[i])]]
          /\ zs_batch_log' =
                 Append(zs_batch_log,
                        [prompted |-> [k \in 1..Len(valid_indices(b)) |->
                                          b[valid_indices(b)[k]]],
                         responses |-> r,
                         returned |-> t = "ok",
                         results |-> Len(generate_translations_batch(b, r))])
          /\ zs_calls' = [d \in 1..zs_n |->
                             IF \E i \in 1..Len(b) : b[i] = d
                             THEN LastCall(t, f[CHOOSE i \in 1..Len(b) : b[i] = d])
                             ELSE zs_calls[d]]
    /\ zs_batch_idx' = zs_batch_idx + 1
    /\ UNCHANGED <<zs_n, zs_batch_size, skip_commentary, zs_pc, zs_source, graph_vars,
                   batch_vars, format_vars, content_vars, more_vars>>

\* return processed_documents
ZsReturn ==
    /\ zs_pc = "loop"
    /\ zs_batch_idx = Len(create_batches(documents, zs_batch_size))
    /\ zs_pc' = "returned"
    /\ UNCHANGED <<zs_n, zs_batch_size, skip_commentary, zs_batch_idx,
                   processed_documents, zs_calls, zs_source, zs_batch_log, graph_vars,
                   batch_vars,
                   format_vars, content_vars, more_vars>>

ZsNext ==
    \/ batch_translate_documents
    \/ ZsReturn

InitZs == ZsInit /\ GraphIdle /\ BatchIdle /\ FormatIdle /\ ContentIdle /\ MoreIdle

SpecZeroShot ==
    /\ InitZs
    /\ [][ZsNext]_vars

\* C23: a document whose translation call still fails after the fallback is
\* reported as failed: it is not among the results returned as translated
\* (it carries no made-up translation), and it is accounted for.
C23_FailuresSurfaced ==
    \A p \in DOMAIN processed_documents :
        zs_calls[processed_documents[p].id] # "raise"

\* ================================================================== claims: ForceAccept
\* The state of an item that is truly accepted: grade "great" with the
\* format matched.
TrulyAccepted(s) == [s EXCEPT !.grade = "great", !.formated = TRUE]

\* C24: an item that left the content loop through the iteration ceiling
\* (without grade "great" and a matched format) carries a Router outcome
\* that differs from the outcome of a truly accepted item, so that the
\* forced acceptance can be told apart downstream.
C24_ForceAcceptDistinct ==
    (node \in {"generate_glossary", "END"} /\ accepted_by = "ceiling")
    => decision # route_translation(TrulyAccepted(state))

\* ================================================================== structural loop
\* route_structured: the function of the conditional edge of the structural
\* loop. It looks at is_target_language before formated and format_iteration.
route_structured(s) ==
    IF s.is_target_language = FALSE
    THEN "Wrong Language"
    ELSE IF s.formated
         THEN "Accepted"
         ELSE IF s.format_iteration >= MAX_FORMAT_ITERATIONS
              THEN "Accepted"
              ELSE "Rejected + Feedback"

\* The values the conditional edge of format_evaluator_feedback maps to a node.
StructuredEdges == {"Accepted", "Rejected + Feedback"}

\* The node a value of route_structured leads to; a value outside the map
\* has no successor and the graph run fails.
StructuredEdgeTarget(r) ==
    CASE r = "Accepted" -> "generate_glossary"
      [] r = "Rejected + Feedback" -> "formater"
      [] OTHER -> "raised"

\* A Work Item as llm_call_evaluator leaves it after the first translation.
EvaluatedState(v) ==
    EvaluationUpdate(
        InitialUpdate([InitialState("", "", "") EXCEPT
                          !.commentary1 = "None", !.commentary1_translation = "None",
                          !.commentary2 = "None", !.commentary2_translation = "None",
                          !.commentary3 = "None", !.commentary3_translation = "None",
                          !.combined_commentary = "source_analysis",
                          !.commentary_source = "source_analysis"], 1), v)

\* The structural loop is entered with an evaluated Work Item, either at its
\* evaluator (the edges of the loop) or at its Router (on the formated and
\* is_target_language values written by llm_call_evaluator).
FormatInit ==
    /\ \E v \in Verdicts :
          /\ state = EvaluatedState(v)
          /\ okay_run = IF v.grade = "okay" THEN 1 ELSE 0
    /\ node \in {"format_evaluator_feedback", "route_structured"}
    /\ done = FanOut
    /\ decision = "none"
    /\ gen_runs = 1
    /\ eval_runs = 1
    /\ llm_calls = 0
    /\ enrichment = "none"
    /\ accepted_by = "none"
    /\ failed_tries = 0
    /\ formater_runs = 0
    /\ format_rejections = 0

\* The node format_evaluator_feedback: one review call, which may raise.
FormatEvaluatorFeedback ==
    /\ node = "format_evaluator_feedback"
    /\ llm_calls' = 1
    /\ \/ \E matched \in BOOLEAN :
          /\ state' = format_evaluator_feedback(state, matched)
          /\ format_rejections' = format_rejections + (IF matched THEN 0 ELSE 1)
          /\ node' = "route_structured"
          /\ failed_tries' = failed_tries
       \/ /\ node' = "raised"
          /\ failed_tries' = 1
          /\ UNCHANGED <<state, format_rejections>>
    /\ UNCHANGED <<done, decision, gen_runs, eval_runs, okay_run, enrichment, accepted_by,
                   formater_runs, batch_vars, content_vars, zs_vars, more_vars>>

\* The conditional edge of format_evaluator_feedback.
RouteStructured ==
    /\ node = "route_structured"
    /\ decision' = route_structured(state)
    /\ node' = StructuredEdgeTarget(route_structured(state))
    /\ llm_calls' = 0
    /\ UNCHANGED <<state, done, gen_runs, eval_runs, okay_run, enrichment, accepted_by,
                   failed_tries, format_vars, batch_vars, content_vars, zs_vars, more_vars>>

\* The node formater (two generation calls, either may raise) and the edge
\* formater -> format_evaluator_feedback.
Formater ==
    /\ node = "formater"
    /\ \/ /\ state' = formater(state)
          /\ formater_runs' = formater_runs + 1
          /\ llm_calls' = 2
          /\ node' = "format_evaluator_feedback"
          /\ failed_tries' = failed_tries
       \/ \E k \in 1..2 :
          /\ llm_calls' = k
          /\ node' = "raised"
          /\ failed_tries' = 1
          /\ UNCHANGED <<state, formater_runs>>
    /\ UNCHANGED <<done, decision, gen_runs, eval_runs, okay_run, enrichment, accepted_by,
                   format_rejections, batch_vars, content_vars, zs_vars, more_vars>>

FormatNext ==
    \/ FormatEvaluatorFeedback
    \/ RouteStructured
    \/ Formater
    \/ generate_glossary

InitFormat == FormatInit /\ BatchIdle /\ ContentIdle /\ ZsIdle /\ MoreIdle

SpecFormat ==
    /\ InitFormat
    /\ [][FormatNext]_vars

\* ================================================================== claims: structural Router
\* The table of the content Router keyed on format_matched alone.
StructuredTable(matched, iter) ==
    IF matched
    THEN "Accepted"
    ELSE IF iter >= MAX_FORMAT_ITERATIONS
         THEN "Accepted"
         ELSE "Rejected + Feedback"

\* C25: the decision of route_structured depends only on formated and
\* format_iteration (Accept when formated, ForceAccept at the ceiling, Retry
\* otherwise), and each value it returns has a successor stage.
C25_StructuredTable ==
    node = "route_structured"
    => /\ route_structured(state) = StructuredTable(state.formated, state.format_iteration)
       /\ route_structured(state) \in StructuredEdges

\* C26: in the structural loop entered at format_evaluator_feedback with
\* format_iteration = 0, a first evaluation that finds the format not matched
\* leads to Retry: the item is not force-accepted before formater has run
\* once; and format_iteration counts the rejected attempts.
C26_RetryBeforeForceAccept ==
    /\ state.format_iteration = format_rejections
    /\ (node = "generate_glossary" /\ ~state.formated) => formater_runs >= 1

\* ================================================================== claims: frame, fan-out, enrichment
\* C27: no stage execution changes source or language of the Work Item, and
\* once the aggregator has produced combined_commentary no later stage
\* (translation_generator, llm_call_evaluator, the Router, generate_glossary)
\* changes it, in any iteration.
C27_Frame ==
    [][/\ state'.source = state.source
       /\ state'.language = state.language
       /\ (node \notin {"START", "aggregator"}
           => state'.combined_commentary = state.combined_commentary)]_vars

\* A Chinese Work Item has gone through two retry passes and the glossary
\* stage with the combined commentary of its aggregator.
C27_Witness ==
    /\ node = "END"
    /\ state.itteration = 2
    /\ state.language = "Chinese"
    /\ state.source = "source"
    /\ state.combined_commentary = "combined"

\* The commentary a caller handed in, read back from the field a fan-out
\* node may have rewritten (None stands for the empty commentary).
HandedIn(c) == IF c = "None" THEN "" ELSE c

\* The state the first superstep has produced once the fan-out nodes of the
\* set d have returned, whatever the order they returned in.
AfterFanOut(s, d) ==
    LET c1 == HandedIn(s.commentary1)
        c2 == HandedIn(s.commentary2)
        c3 == HandedIn(s.commentary3)
        t(k, c) == IF k \in d THEN CommentaryTranslation(c) ELSE "unset"
        f(k, c) == IF k \in d THEN CommentaryTranslation(c) ELSE c
    IN  [InitialState(c1, c2, c3) EXCEPT
            !.language = s.language,
            !.commentary1 = f("commentary_translator_1", c1),
            !.commentary2 = f("commentary_translator_2", c2),
            !.commentary3 = f("commentary_translator_3", c3),
            !.commentary1_translation = t("commentary_translator_1", c1),
            !.commentary2_translation = t("commentary_translator_2", c2),
            !.commentary3_translation = t("commentary_translator_3", c3)]

\* C28: the three fan-out nodes write pairwise disjoint fields, so the state
\* of the Work Item depends only on which of them have returned and not on
\* their order; the aggregator runs only after all three have returned, and
\* exactly once per item.
C28_FanOutFanIn ==
    /\ [](node = "START" => state = AfterFanOut(state, done))
    /\ [](node = "aggregator" => (done = FanOut /\ state = AfterFanOut(state, FanOut)))
    /\ [][/\ (node' = "aggregator" /\ node # "aggregator")
             => (node = "START" /\ done = FanOut)
          /\ (node = "aggregator" => node' # "aggregator")
          /\ (done' # done => node = "START")]_vars

\* All three fan-out nodes have returned and the aggregator is scheduled,
\* with one commentary handed in and two empty ones.
C28_Witness ==
    /\ node = "aggregator"
    /\ done = FanOut
    /\ state.commentary1_translation = "None"
    /\ state.commentary2_translation = "text"
    /\ state.commentary3_translation = "None"

\* C29: generate_glossary runs only after route_translation has returned
\* "Accepted" (from its grade branch or its ceiling branch), it runs once and
\* the item ends there: translation_generator and llm_call_evaluator never
\* run after it; and the glossary of the item is empty in every state before
\* the stage has run.
C29_GlossaryTerminal ==
    /\ [](node = "generate_glossary"
          => (decision = "Accepted" /\ accepted_by \in {"grade", "ceiling"}))
    /\ [](enrichment = "none" => state.glossary = <<>>)
    /\ []((node = "END") <=> (enrichment # "none"))
    /\ [][/\ (enrichment' # enrichment)
             => (node = "generate_glossary" /\ enrichment = "none" /\ node' = "END")
          /\ node # "END"
          /\ (node = "generate_glossary"
              => (gen_runs' = gen_runs /\ eval_runs' = eval_runs))]_vars

\* The glossary stage has run on a force-accepted item and extracted entries.
C29_Witness ==
    /\ node = "END"
    /\ accepted_by = "ceiling"
    /\ enrichment = "entries"
    /\ state.glossary = <<"entry">>
    /\ gen_runs = MAX_TRANSLATION_ITERATIONS + 1

\* ================================================================== claims: termination
\* Steps one item of a degraded batch can still take: its start, its
\* attempts (one more step than retries left while it has not succeeded),
\* the exit of its while-loop.
ItemCost == max_retries + 3

\* Steps the k-th batch can take: its start, its attempts, the exit of its
\* while-loop, its items and the end of the item loop.
BatchCost(k) == max_retries + 4 + Len(batches[k]) * ItemCost

\* Steps the batches from the k-th on can take.
RECURSIVE Rest(_)
Rest(k) == IF k > Len(batches) THEN 0 ELSE BatchCost(k) + Rest(k + 1)

\* Attempts a while-loop can still make, counted so that a success and a
\* failure both use one up.
Budget(success, retries) == (max_retries - retries) + (IF success THEN 0 ELSE 1)

\* A bound on the steps the coordinator can still take from the current
\* state (the variant of its loops).
Rank ==
    CASE pc = "for_batch" -> Rest(batch_idx + 1) + 1
      [] pc = "batch_while" ->
             Rest(batch_idx + 2) + 1 + Budget(batch_success, batch_retries) + 1
             + Len(batch) * ItemCost + 1
      [] pc = "for_item" ->
             Rest(batch_idx + 2) + 1 + (Len(batch) - item_idx) * ItemCost + 1
      [] pc = "item_while" ->
             Rest(batch_idx + 2) + 1 + (Len(batch) - item_idx - 1) * ItemCost
             + Budget(item_success, item_retries) + 1 + 1
      [] OTHER -> 0

\* C30: the coordinator always terminates, whatever the workflow invocations
\* do: a batch gets at most max_retries batched invocations and an item at
\* most max_retries individual ones, every step uses up a bound that the
\* retry ceilings fix, the run cannot stop before it has returned (or has
\* been left by a raise of the failure log write), and it returns when no
\* log write raises.
C30_Terminates ==
    /\ [](/\ mode = "robust"
             => /\ \A k \in DOMAIN batch_attempts :
                      Len(batch_attempts[k]) <= max_retries
                /\ \A i \in DOMAIN item_attempts :
                      Len(item_attempts[i]) <= max_retries
          /\ batch_retries <= max_retries
          /\ item_retries <= max_retries
          /\ Rank >= 0
          /\ (pc \notin {"done", "aborted"} => ENABLED BatchNext)
          /\ (pc = "aborted" => sink_faults > 0))
    /\ [][Rank' < Rank]_vars

\* A run has returned after a batch used up its max_retries = 2 batched
\* invocations and one of its items its 2 individual invocations.
C30_Witness ==
    /\ mode = "robust"
    /\ pc = "done"
    /\ max_retries = 2
    /\ \E i \in DOMAIN item_attempts :
          /\ item_attempts[i] = <<"raise", "raise">>
          /\ batch_attempts[BatchOf(i)] = <<"raise", "raise">>

\* ================================================================== claims: terminal items
\* C31: an item whose record has been written to a sink is terminal: the
\* workflow is not invoked on it again and no second record is written for
\* it, so every item appears at most once in the success log.
C31_WrittenOnce ==
    \A i \in 1..n_items : Count(i, success_log) <= 1

\* ================================================================== UCCA refinement graph
\* (ucca_generator/ucca_agent.py: START -> ucca_generator -> ucca_evaluator ->
\*  route_ucca -> END | ucca_generator)
OldIdle == GraphIdle /\ BatchIdle /\ FormatIdle /\ ContentIdle /\ ZsIdle

\* Cap on the feedback entries explored for one run (the graph has no ceiling of
\* its own on them).
MaxUccaPasses == 4

\* The initial State handed to the graph, as the coordinators build it:
\* feedback_history [], itteration 0; no graph and no grade yet.
UccaInit ==
    /\ ucca_node = "ucca_generator" /\ ucca_calls = 0
    /\ ucca_state = [feedback_history |-> <<>>, itteration |-> 0, source_ucca |-> <<>>,
                     latest_structured_suggestions |-> <<>>, grade |-> "unset"]

\* How the pair of calls of ucca_generator went: at the first try, at the
\* retry of the except clause, or not at all.
UccaGenOutcomes == {"ok", "retry_ok", "failed"}

\* tries of the pair of generation calls that an outcome stands for
UccaTries(o) == IF o = "ok" THEN 1 ELSE 2

route_ucca_great_only(s) ==
    IF s.grade = "great" THEN "Accepted" ELSE "Rejected + Feedback"

route_ucca(s) ==
    IF s.grade = "great" THEN "Accepted"
    ELSE IF s.itteration >= 1 THEN "Accepted"
    ELSE "Rejected + Feedback"

\* ucca_generator: with feedback in the history the refinement prompt is used;
\* a success appends the graph and increments itteration, two failures are
\* only printed and the node returns None (no update). Without feedback the
\* generation prompt is used; two failures leave `uccagraph` unbound and the
\* return statement raises.
UccaGenerator ==
    /\ ucca_node = "ucca_generator"
    /\ \E o \in UccaGenOutcomes :
          /\ ucca_calls' = ucca_calls + UccaTries(o)
          /\ IF ucca_state.feedback_history # <<>>
             THEN /\ ucca_state' =
                        IF o = "failed" THEN ucca_state
                        ELSE [ucca_state EXCEPT
                                 !.source_ucca = Append(@, ucca_calls + UccaTries(o)),
                                 !.itteration = @ + 1]
                  /\ ucca_node' = "ucca_evaluator"
             ELSE IF o = "failed"
                  THEN /\ ucca_node' = "raised"
                       /\ UNCHANGED ucca_state
                  ELSE /\ ucca_state' =
                             [ucca_state EXCEPT
                                 !.source_ucca = <<ucca_calls + UccaTries(o)>>,
                                 !.itteration = 0]
                       /\ ucca_node' = "ucca_evaluator"
    /\ UNCHANGED <<graph_vars, batch_vars, format_vars, content_vars, zs_vars, ucca_rest>>

\* What the evaluation call can return: a grade with or without suggestions,
\* or an exception.
UccaEvalOutcomes ==
    [grade : Grades, suggestions : {<<>>, <<"suggestion">>}, raised : {FALSE}]
    \cup {[grade |-> "bad", suggestions |-> <<>>, raised |-> TRUE]}

\* the entry appended to feedback_history
feedback_entry(s, o) ==
    [iteration |-> s.itteration, grade |-> o.grade, failed |-> o.raised]

\* ucca_evaluator: at itteration >= 1 it returns the iteration count only;
\* without a graph it records grade "bad"; otherwise it grades the latest
\* graph, an exception of the call counting as grade "bad".
UccaEvaluator ==
    /\ ucca_node = "ucca_evaluator"
    /\ IF ucca_state.itteration >= 1
       THEN /\ ucca_state' = [ucca_state EXCEPT !.itteration = ucca_state.itteration]
            /\ UNCHANGED ucca_calls
       ELSE IF ucca_state.source_ucca = <<>>
            THEN /\ Len(ucca_state.feedback_history) < MaxUccaPasses
                 /\ ucca_state' =
                       [ucca_state EXCEPT
                           !.grade = "bad",
                           !.feedback_history =
                               Append(@, [iteration |-> ucca_state.itteration,
                                           grade |-> "none", failed |-> TRUE])]
                 /\ UNCHANGED ucca_calls
            ELSE /\ Len(ucca_state.feedback_history) < MaxUccaPasses
                 /\ \E o \in UccaEvalOutcomes :
                       ucca_state' =
                          [ucca_state EXCEPT
                              !.grade = o.grade,
                              !.feedback_history = Append(@, feedback_entry(ucca_state, o)),
                              !.latest_structured_suggestions = o.suggestions]
                 /\ ucca_calls' = ucca_calls + 1
    /\ ucca_node' = "route_ucca"
    /\ UNCHANGED <<graph_vars, batch_vars, format_vars, content_vars, zs_vars, ucca_rest>>

\* the conditional edge after ucca_evaluator
RouteUcca ==
    /\ ucca_node = "route_ucca"
    /\ ucca_node' = IF route_ucca(ucca_state) = "Accepted" THEN "END" ELSE "ucca_generator"
    /\ UNCHANGED <<ucca_state, ucca_calls, graph_vars, batch_vars, format_vars,
                   content_vars, zs_vars, ucca_rest>>

UccaNext ==
    \/ UccaGenerator
    \/ UccaEvaluator
    \/ RouteUcca

InitUcca == UccaInit /\ OldIdle /\ GenIdle /\ PipeIdle /\ PostIdle

SpecUcca ==
    /\ InitUcca
    /\ [][UccaNext]_vars

\* ================================================================== claims: UCCA loop
\* Node executions a run still has before it, counted from the iteration
\* ceiling: generate, grade, route, refine once, pass the evaluator, route.
UccaRank ==
    IF ucca_node \in {"idle", "END", "raised"} THEN 0
    ELSE IF ucca_state.itteration >= 1
         THEN (IF ucca_node = "ucca_evaluator" THEN 2 ELSE 1)
    ELSE IF ucca_node = "ucca_generator"
         THEN (IF ucca_state.feedback_history = <<>> THEN 6 ELSE 3)
    ELSE IF ucca_node = "ucca_evaluator" THEN 5
    ELSE 4

\* C32: the refinement loop terminates whatever the generation service does:
\* every step of the graph uses up one of the node executions the iteration
\* ceiling leaves, so evaluator and generator cannot keep alternating.
C32_LoopTerminates ==
    [][UccaRank' < UccaRank]_vars

\* C33: itteration never exceeds 1 and source_ucca never holds more than 2
\* graphs; at itteration >= 1 the evaluator issues no generation call and
\* leaves grade and feedback_history as they are, and route_ucca then
\* accepts: the refined graph is accepted without being graded again.
C33_RefinedNotRegraded ==
    /\ [](ucca_state.itteration <= 1 /\ Len(ucca_state.source_ucca) <= 2)
    /\ [][(ucca_node = "ucca_evaluator" /\ ucca_state.itteration >= 1)
            => /\ ucca_calls' = ucca_calls
               /\ ucca_state'.grade = ucca_state.grade
               /\ ucca_state'.feedback_history = ucca_state.feedback_history
               /\ ucca_node' = "route_ucca"
               /\ route_ucca(ucca_state') = "Accepted"]_vars
    /\ [][(ucca_node = "route_ucca" /\ ucca_state.itteration >= 1)
            => ucca_node' = "END"]_vars

C33_Witness ==
    /\ ucca_node = "END"
    /\ ucca_state.itteration = 1
    /\ Len(ucca_state.source_ucca) = 2
    /\ ucca_state.grade # "great"
    /\ Len(ucca_state.feedback_history) = 1

\* ================================================================== single-step UCCA generation
\* (ucca_generator/ucca_generator.py run_ucca_generation_pipeline and
\*  ucca_generator/workflow.py generate_ucca_graph_step)

\* What the generation service can do: raise, or return a text made of an
\* optional opening code fence, a payload and an optional closing fence. The
\* payload is a schema-valid graph object ("graph"), JSON that is not a valid
\* graph ("object") or text that is not JSON ("text").
GenServices ==
    [raises : {FALSE}, open : {"", "fence_json", "fence"},
     payload : {"graph", "object", "text"}, close : {"", "fence"}]
    \cup {[raises |-> TRUE, open |-> "", payload |-> "text", close |-> ""]}

\* The two callers in the source: run_ucca_generation_pipeline builds a State
\* without the key processing_log, the test block of workflow.py one with it.
GenInit ==
    /\ gen_entry \in {"run_ucca_generation_pipeline", "workflow_main"}
    /\ gen_service \in GenServices
    /\ gen_state = [ucca_graph_json_str |-> "None", ucca_graph |-> "None",
                    error_message |-> "None",
                    processing_log |-> IF gen_entry = "workflow_main" THEN <<>> ELSE "absent"]
    /\ gen_pc = "call"

\* lines 64-74: strip the opening fence and, only when one was stripped, the
\* closing fence
Cleaned(raw) ==
    IF raw.open = "fence_json" \/ raw.open = "fence"
    THEN [open |-> "", payload |-> raw.payload, close |-> ""]
    ELSE [open |-> "", payload |-> raw.payload, close |-> raw.close]

\* json.loads accepts the cleaned text
JsonLoads(c) == c.close = "" /\ c.payload \in {"graph", "object"}

\* UCCAGraph(**graph_data) validates
Validates(c) == c.payload = "graph"

\* generate_ucca_graph_step, lines 52-53: the log entry is appended before
\* the try block; a State without processing_log raises KeyError here.
StepEntry ==
    /\ gen_pc = "call"
    /\ IF gen_state.processing_log = "absent"
       THEN /\ gen_pc' = "step_raised"
            /\ UNCHANGED gen_state
       ELSE /\ gen_state' = [gen_state EXCEPT
                                !.processing_log = Append(@, "Starting UCCA graph generation.")]
            /\ gen_pc' = "try"
    /\ UNCHANGED <<gen_entry, gen_service, graph_vars, batch_vars, format_vars,
                   content_vars, zs_vars, gen_rest>>

\* generate_ucca_graph_step, lines 55-94: the try block, its except clauses
\* and the return
generate_ucca_graph_step ==
    /\ gen_pc = "try"
    /\ gen_state' =
          IF gen_service.raises
          THEN [gen_state EXCEPT !.error_message = "Error processing LLM response"]
          ELSE LET c == Cleaned(gen_service) IN
               IF ~JsonLoads(c)
               THEN [gen_state EXCEPT !.ucca_graph_json_str = c,
                                      !.error_message = "Failed to decode LLM output as JSON"]
               ELSE IF ~Validates(c)
               THEN [gen_state EXCEPT !.ucca_graph_json_str = c,
                                      !.error_message = "Error processing LLM response"]
               ELSE [gen_state EXCEPT !.ucca_graph_json_str = c,
                                      !.ucca_graph = c.payload]
    /\ gen_pc' = "step_returned"
    /\ UNCHANGED <<gen_entry, gen_service, graph_vars, batch_vars, format_vars,
                   content_vars, zs_vars, gen_rest>>

\* run_ucca_generation_pipeline, lines 24-46: return final_state, or on an
\* exception of the step initial_state with error_message set
run_ucca_generation_pipeline ==
    /\ gen_entry = "run_ucca_generation_pipeline"
    /\ gen_pc \in {"step_raised", "step_returned"}
    /\ gen_state' = IF gen_pc = "step_raised"
                    THEN [gen_state EXCEPT !.error_message = "Pipeline critical error"]
                    ELSE gen_state
    /\ gen_pc' = "returned"
    /\ UNCHANGED <<gen_entry, gen_service, graph_vars, batch_vars, format_vars,
                   content_vars, zs_vars, gen_rest>>

GenNext ==
    \/ StepEntry
    \/ generate_ucca_graph_step
    \/ run_ucca_generation_pipeline

InitGen == GenInit /\ OldIdle /\ UccaIdle /\ PipeIdle /\ PostIdle

SpecGen ==
    /\ InitGen
    /\ [][GenNext]_vars

\* ================================================================== claims: single-step generation
\* the service returns a schema-valid graph, bare or inside a code fence
ServiceValid ==
    /\ ~gen_service.raises
    /\ gen_service.payload = "graph"
    /\ (gen_service.open = "" => gen_service.close = "")

\* C34: run_ucca_generation_pipeline never raises, and the state it returns has
\* ucca_graph set and error_message unset when the service returns a valid
\* graph, ucca_graph unset and error_message set otherwise, never both set.
C34_OutcomeRecorded ==
    gen_entry = "run_ucca_generation_pipeline" =>
        /\ gen_pc # "raised"
        /\ gen_pc = "returned" =>
              /\ ServiceValid =>
                    gen_state.ucca_graph # "None" /\ gen_state.error_message = "None"
              /\ ~ServiceValid =>
                    gen_state.ucca_graph = "None" /\ gen_state.error_message # "None"
              /\ ~(gen_state.ucca_graph # "None" /\ gen_state.error_message # "None")

\* ================================================================== request pipeline
\* (tibetan_translator_v2/processors/pipeline.py TranslationPipeline.process_request;
\*  its call of generate_all_content runs the content machine above)

\* The statements of the try block that can raise: prepare_components (a
\* malformed input_data), or len(request.target_languages) when the request
\* carries no list of languages.
PipeFaults == {"none", "prepare_components", "target_languages"}

\* state = WorkflowState(request=request, result=result): current_step is
\* "initialized", errors is [], the result holds empty dictionaries.
PipeInit ==
    /\ pipe_fault \in PipeFaults
    /\ pipe_pc = "created"
    /\ current_step = "initialized"
    /\ errors = <<>>
    /\ result = [translations |-> <<>>, glossaries |-> <<>>]
    /\ target_languages \in TargetLanguageLists
    /\ (pipe_fault = "target_languages" => target_languages = <<>>)
    /\ content_pc = "idle"
    /\ lang_idx = 0
    /\ content_results = [translations |-> <<>>, glossaries |-> <<>>]
    /\ content_log = <<>>

PipeExcept_norecord(e, fault) == e

\* the except clause, lines 150-154: errors.append(str(e)) (current_step is
\* set to "failed" by the action)
PipeExcept(e, fault) == Append(e, fault)

\* line 115
EnterPreparing ==
    /\ pipe_pc = "created"
    /\ current_step' = "preparing_components"
    /\ pipe_pc' = "prepare"
    /\ UNCHANGED <<pipe_fault, errors, result, graph_vars, batch_vars, format_vars,
                   content_vars, zs_vars, pipe_rest>>

\* lines 118-122: prepare_components, then current_step = "generating_content"
PrepareComponents ==
    /\ pipe_pc = "prepare"
    /\ IF pipe_fault = "prepare_components"
       THEN /\ current_step' = "failed"
            /\ errors' = PipeExcept(errors, pipe_fault)
            /\ pipe_pc' = "raised"
       ELSE /\ current_step' = "generating_content"
            /\ pipe_pc' = "generate"
            /\ UNCHANGED errors
    /\ UNCHANGED <<pipe_fault, result, graph_vars, batch_vars, format_vars,
                   content_vars, zs_vars, pipe_rest>>

\* lines 123-132: the call of generate_all_content
CallGenerateAllContent ==
    /\ pipe_pc = "generate"
    /\ IF pipe_fault = "target_languages"
       THEN /\ current_step' = "failed"
            /\ errors' = PipeExcept(errors, pipe_fault)
            /\ pipe_pc' = "raised"
            /\ UNCHANGED content_pc
       ELSE /\ content_pc' = "loop"
            /\ pipe_pc' = "in_generate_all_content"
            /\ UNCHANGED <<current_step, errors>>
    /\ UNCHANGED <<pipe_fault, result, target_languages, lang_idx, content_results,
                   content_log, graph_vars, batch_vars, format_vars, zs_vars, pipe_rest>>

\* lines 135-145: generate_all_content has returned
FinalizeResults ==
    /\ pipe_pc = "in_generate_all_content"
    /\ content_pc = "returned"
    /\ current_step' = "finalizing_results"
    /\ result' = [translations |-> content_results.translations,
                  glossaries |-> content_results.glossaries]
    /\ pipe_pc' = "finalize"
    /\ UNCHANGED <<pipe_fault, errors, graph_vars, batch_vars, format_vars,
                   content_vars, zs_vars, pipe_rest>>

\* lines 147-148
Complete ==
    /\ pipe_pc = "finalize"
    /\ current_step' = "completed"
    /\ pipe_pc' = "returned"
    /\ UNCHANGED <<pipe_fault, errors, result, graph_vars, batch_vars, format_vars,
                   content_vars, zs_vars, pipe_rest>>

process_request ==
    \/ EnterPreparing
    \/ PrepareComponents
    \/ CallGenerateAllContent
    \/ generate_all_content
    \/ ContentReturn
    \/ FinalizeResults
    \/ Complete

InitPipe ==
    PipeInit /\ GraphIdle /\ BatchIdle /\ FormatIdle /\ ZsIdle /\ UccaIdle /\ GenIdle /\ PostIdle

SpecPipe ==
    /\ InitPipe
    /\ [][process_request]_vars

\* ================================================================== claims: request pipeline
\* the order of the values of current_step
StepOrder ==
    {<<"initialized", "preparing_components">>,
     <<"preparing_components", "generating_content">>,
     <<"generating_content", "finalizing_results">>,
     <<"finalizing_results", "completed">>}

\* C35: current_step advances initialized -> preparing_components ->
\* generating_content -> finalizing_results -> completed without skipping; an
\* exception sets it to "failed", records the error and is re-raised;
\* "completed" and "failed" are terminal; failures of target languages alone
\* never lead to "failed".
C35_StepOrder ==
    /\ [][current_step' # current_step =>
             \/ <<current_step, current_step'>> \in StepOrder
             \/ /\ current_step' = "failed"
                /\ current_step \notin {"completed", "failed"}
                /\ Len(errors') = Len(errors) + 1
                /\ pipe_pc' = "raised"]_vars
    /\ [](pipe_pc = "raised" <=> current_step = "failed")
    /\ [](pipe_pc = "returned" <=> current_step = "completed")
    /\ [](current_step = "failed" => pipe_fault # "none" /\ errors = <<pipe_fault>>)
    /\ []((pipe_fault = "none" /\ content_pc = "returned") => current_step # "failed")

C35_Witness ==
    /\ current_step = "completed"
    /\ \E l \in DOMAIN result.translations : result.translations[l] = "None"

\* ================================================================== claims: content generation
\* C36: whatever languages are requested and whichever of them fail, the
\* translations and glossaries returned by generate_all_content hold an entry
\* for every requested language; every language is attempted, in order, also
\* after a failure; a language that failed is recorded as translation None
\* with an empty glossary.
C36_EveryLanguageRecorded ==
    /\ \A i \in 1..lang_idx :
          /\ target_languages[i] \in DOMAIN content_results.translations
          /\ target_languages[i] \in DOMAIN content_results.glossaries
    /\ Len(content_log) = lang_idx
    /\ \A p \in DOMAIN content_log :
          /\ content_log[p].language = target_languages[p]
          /\ (LastFor(p) /\ "raise" \in {content_log[p].translation, content_log[p].glossary})
             => /\ content_results.translations[content_log[p].language] = "None"
                /\ content_results.glossaries[content_log[p].language] = <<>>
    /\ content_pc = "returned" => lang_idx = Len(target_languages)

C36_Witness ==
    /\ content_pc = "returned"
    /\ Len(target_languages) = 2
    /\ target_languages[1] # target_languages[2]
    /\ content_log[1].translation = "raise"
    /\ content_log[2].translation = "ok"
    /\ content_log[2].glossary = "entries"
    /\ content_results.translations[target_languages[1]] = "None"
    /\ content_results.translations[target_languages[2]] = "translation"

\* ================================================================== post-translation cascades
\* (tibetan_translator/processors/post_translation.py: standardize_terminology,
\*  apply_standardized_terms, generate_word_by_word)

\* Cap on the examples or documents handed to a cascade.
MaxDocs == 6

Cascades == {"standardize_terminology", "apply_standardized_terms", "generate_word_by_word"}

\* the batch_size each function sets
post_batch_size(c) ==
    CASE c = "standardize_terminology" -> 30
      [] c = "apply_standardized_terms" -> 5
      [] OTHER -> 20

\* Documents are numbered 1..post_n in corpus order (the source counts from 0).
\* doc_indices: the documents whose source contains a standardized term, in
\* corpus order; documents_to_process and prompts are parallel to it.
doc_indices == SelectSeq([j \in 1..post_n |-> j], LAMBDA j : has_term[j])

\* The prompts in order, each named by the example or document it is built
\* from: apply_standardized_terms builds one per document of doc_indices,
\* the other two functions one per input.
prompts ==
    IF cascade = "apply_standardized_terms" THEN doc_indices
    ELSE [j \in 1..post_n |-> j]

\* number of batches: range(0, len(prompts), batch_size)
NumBatches ==
    (Len(prompts) + post_batch_size(cascade) - 1) \div post_batch_size(cascade)

\* batches[b] of the cascade: the prompts of the b-th batch (b from 0), a slice of prompts
prompt_batches(b) ==
    SubSeq(prompts, b * post_batch_size(cascade) + 1,
           Min((b + 1) * post_batch_size(cascade), Len(prompts)))

batch_indices_local(b) ==
    [k \in 1..(Min((b + 1) * post_batch_size(cascade), Len(prompts))
               - b * post_batch_size(cascade)) |-> k]

\* batch_indices[b]: the positions in prompts of the b-th batch (b from 0)
batch_indices(b) ==
    [k \in 1..(Min((b + 1) * post_batch_size(cascade), Len(prompts))
               - b * post_batch_size(cascade)) |-> b * post_batch_size(cascade) + k]

\* What a batched call can do: raise, or return one result per prompt, of
\* which the one at position `bad` (0: none) is not a result object, so that
\* handling it raises inside the same try block.
BatchCallOutcomes(len) ==
    {[kind |-> "raise", bad |-> 0]} \cup [kind : {"results"}, bad : 0..len]

\* the result that the service derives from the prompt built from document j
ResultOf(j) == [kind |-> "result", doc |-> j]

\* the translation a document came with
Original(j) == [kind |-> "original", doc |-> j]

\* None, the empty string, and a key that is not in the dictionary
NoneValue == [kind |-> "None", doc |-> 0]

EmptyString == [kind |-> "empty", doc |-> 0]

Absent == [kind |-> "absent", doc |-> 0]

\* Storing one value for prompt i: standardize_terminology appends to
\* standardized_words, the other two functions assign position i of their list.
Store(st, i, v) ==
    IF cascade = "standardize_terminology" THEN Append(st, v)
    ELSE [st EXCEPT ![i] = v]

\* the loop over zip(indices, results) of a batched call (results[k] answers
\* batch[k]), up to result number upto
RECURSIVE StoreResults(_, _, _, _)
StoreResults(st, bt, idxs, upto) ==
    IF upto = 0 THEN st
    ELSE Store(StoreResults(st, bt, idxs, upto - 1), idxs[upto], ResultOf(bt[upto]))

\* store after a batched call with outcome o
AfterBatchCall(st, bt, idxs, o) ==
    IF o.kind = "raise" THEN st
    ELSE IF o.bad = 0 THEN StoreResults(st, bt, idxs, Min(Len(bt), Len(idxs)))
    ELSE StoreResults(st, bt, idxs, o.bad - 1)

BatchCallFailed(o) == o.kind = "raise" \/ o.bad # 0

\* what the except clause of an individual call records for prompt i
ItemFallback(st, i) ==
    CASE cascade = "standardize_terminology" -> st
      [] cascade = "apply_standardized_terms" -> [st EXCEPT ![i] = Original(doc_indices[i])]
      [] OTHER -> [st EXCEPT ![i] = EmptyString]

\* the individual calls over zip(indices, batch), f[k] telling how the k-th
\* one goes
RECURSIVE Individually(_, _, _, _, _)
Individually(st, bt, idxs, f, upto) ==
    IF upto = 0 THEN st
    ELSE LET prev == Individually(st, bt, idxs, f, upto - 1) IN
         IF f[upto] = "ok" THEN Store(prev, idxs[upto], ResultOf(bt[upto]))
         ELSE ItemFallback(prev, idxs[upto])

PostInit ==
    /\ cascade \in Cascades
    /\ post_n \in 0..MaxDocs
    /\ has_term \in [1..post_n -> BOOLEAN]
    /\ (cascade # "apply_standardized_terms" => \A j \in 1..post_n : has_term[j])
    /\ post_pc = "loop"
    /\ post_batch_idx = 0
    /\ post_store = IF cascade = "standardize_terminology" THEN <<>>
                    ELSE [i \in 1..Len(prompts) |-> NoneValue]
    /\ post_calls = <<>>
    /\ updated_corpus = <<>>

\* One iteration of the loop over the batches: the batched call, on failure
\* the retry, on a second failure the individual calls.
PostBatch ==
    /\ post_pc = "loop"
    /\ post_batch_idx < NumBatches
    /\ LET bt == prompt_batches(post_batch_idx)
           idxs == batch_indices(post_batch_idx)
       IN
       \E o1, o2 \in BatchCallOutcomes(Len(bt)), f \in [1..Len(bt) -> {"ok", "raise"}] :
          LET s1 == AfterBatchCall(post_store, bt, idxs, o1)
              s2 == AfterBatchCall(s1, bt, idxs, o2)
          IN  IF ~BatchCallFailed(o1)
              THEN /\ post_store' = s1
                   /\ post_calls' = Append(post_calls, <<[call |-> "batch", outcome |-> o1]>>)
              ELSE IF ~BatchCallFailed(o2)
              THEN /\ post_store' = s2
                   /\ post_calls' = Append(post_calls,
                                           <<[call |-> "batch", outcome |-> o1],
                                             [call |-> "batch", outcome |-> o2]>>)
              ELSE /\ post_store' = Individually(s2, bt, idxs, f, Len(bt))
                   /\ post_calls' = Append(post_calls,
                                           <<[call |-> "batch", outcome |-> o1],
                                             [call |-> "batch", outcome |-> o2]>>
                                           \o [k \in 1..Len(bt) |->
                                                  [call |-> "invoke", prompt |-> bt[k],
                                                   outcome |-> f[k]]])
    /\ post_batch_idx' = post_batch_idx + 1
    /\ UNCHANGED <<cascade, post_n, has_term, post_pc, updated_corpus, graph_vars,
                   batch_vars, format_vars, content_vars, zs_vars, post_rest>>

\* position of document j in doc_indices (0 when it is not there)
PositionOf(j) ==
    IF \E i \in 1..Len(doc_indices) : doc_indices[i] = j
    THEN CHOOSE i \in 1..Len(doc_indices) : doc_indices[i] = j
    ELSE 0

\* The corpus a function returns: apply_standardized_terms replaces the
\* translation of doc_indices[i] by a non-empty standardized_translations[i];
\* generate_word_by_word sets word_by_word_translation of document i from a
\* non-empty word_by_word_translations[i]; standardize_terminology returns
\* standardized_words and no corpus.
UpdatedCorpus ==
    CASE cascade = "apply_standardized_terms" ->
            [j \in 1..post_n |->
                [doc |-> j,
                 translation |->
                    IF PositionOf(j) # 0 /\ post_store[PositionOf(j)] \notin {NoneValue, EmptyString}
                    THEN post_store[PositionOf(j)]
                    ELSE Original(j),
                 word_by_word_translation |-> Absent]]
      [] cascade = "generate_word_by_word" ->
            [j \in 1..post_n |->
                [doc |-> j,
                 translation |-> Original(j),
                 word_by_word_translation |->
                    IF post_store[j] \notin {NoneValue, EmptyString} THEN post_store[j]
                    ELSE Absent]]
      [] OTHER -> <<>>

PostReturn ==
    /\ post_pc = "loop"
    /\ post_batch_idx = NumBatches
    /\ updated_corpus' = UpdatedCorpus
    /\ post_pc' = "returned"
    /\ UNCHANGED <<cascade, post_n, has_term, post_batch_idx, post_store, post_calls,
                   graph_vars, batch_vars, format_vars, content_vars, zs_vars, post_rest>>

PostNext ==
    \/ PostBatch
    \/ PostReturn

InitPost == PostInit /\ OldIdle /\ UccaIdle /\ GenIdle /\ PipeIdle

SpecPost ==
    /\ InitPost
    /\ [][PostNext]_vars

\* ================================================================== claims: post-translation cascades
\* calls of a batch that are of the given kind
CallsOf(cs, kind) == SelectSeq(cs, LAMBDA c : c.call = kind)

\* times the value v occurs in the list st
Occurrences(st, v) == Cardinality({q \in DOMAIN st : st[q] = v})

\* C37: each batch is processed by one batched call; on failure by exactly one
\* batched retry; on a second failure by one individual call per item of the
\* batch, in order; a failed item stops neither the remaining items nor the
\* later batches; each input of a batch contributes at most one result.
C37_Cascade ==
    /\ \A b \in DOMAIN post_calls :
          LET cs == post_calls[b]
              idxs == prompt_batches(b - 1)
          IN  /\ cs[1].call = "batch"
              /\ Len(CallsOf(cs, "batch")) =
                    IF BatchCallFailed(cs[1].outcome) THEN 2 ELSE 1
              /\ Len(cs) >= 2 => cs[2].call = "batch"
              /\ CallsOf(cs, "invoke") =
                    IF Len(cs) >= 2 /\ BatchCallFailed(cs[2].outcome)
                    THEN [k \in 1..Len(idxs) |-> cs[2 + k]]
                    ELSE <<>>
              /\ \A k \in 1..Len(CallsOf(cs, "invoke")) :
                    CallsOf(cs, "invoke")[k].prompt = idxs[k]
              /\ Len(CallsOf(cs, "invoke")) \in {0, Len(idxs)}
    /\ post_pc = "returned" => Len(post_calls) = NumBatches
    /\ \A i \in 1..Len(prompts) : Occurrences(post_store, ResultOf(prompts[i])) <= 1

\* C38: in apply_standardized_terms the translation of document j is replaced
\* only by the result of the prompt built from document j, through batching,
\* retry and individual fallback; documents without a standardized term keep
\* their translation; the returned corpus has the length and order of the
\* input.
C38_Aligned ==
    cascade = "apply_standardized_terms" =>
        /\ \A i \in 1..Len(prompts) :
              post_store[i] \in {NoneValue, ResultOf(doc_indices[i]), Original(doc_indices[i])}
        /\ post_pc = "returned" =>
              /\ Len(updated_corpus) = post_n
              /\ \A j \in 1..post_n :
                    /\ updated_corpus[j].doc = j
                    /\ updated_corpus[j].translation \in {Original(j), ResultOf(j)}
                    /\ ~has_term[j] => updated_corpus[j].translation = Original(j)

C38_Witness ==
    /\ cascade = "apply_standardized_terms"
    /\ post_pc = "returned"
    /\ post_n = 6
    /\ \A j \in 1..6 : has_term[j]
    /\ Len(post_calls) = 2
    /\ Len(post_calls[1]) > 2
    /\ updated_corpus[1].translation = Original(1)
    /\ updated_corpus[5].translation = ResultOf(5)
    /\ Len(post_calls[2]) = 2
    /\ updated_corpus[6].translation = ResultOf(6)

====
